---- MODULE Spec2Model ----
(***************************************************************************)
(* Model of the shared coordination layer and the identity rotation of     *)
(* sales/engine/tor_controller.py (Redis lease, circuit breaker,           *)
(* force_new_identity) and of the endpoint race of                         *)
(* sales/engine/discovery_engine.py (_race_endpoints_async and its retry). *)
(*                                                                         *)
(* Time is discrete, one Tick per second.  A Redis key is a record         *)
(* [val, ttl]: ttl = 0 means the key does not exist, ttl = -1 a key with   *)
(* no expiry, ttl > 0 the seconds the key still lives.  Steps of the       *)
(* workers take no time; any number of Ticks may pass between two steps    *)
(* (network waits and process pauses are not bounded by the code below     *)
(* the socket timeouts).                                                   *)
(***************************************************************************)
EXTENDS Integers, Sequences, FiniteSets, TLC

\* ---------------------------------------------------------------- bounds
MaxTokens == 3
MaxFailCount == 3
\* Longest list of search results enumerated (the provider is asked for 5).
MaxResults == 3
\* Most links found on a page, and most distinct emails counted.
MaxLinks == 3
MaxEmails == 3

\* ------------------------------------------------------ program constants
LockTtlMs == 8000
BaseCooldown == 12
Threshold == 3
CooldownSecs == 45
JitterMinMs == 2800
JitterMaxMs == 4100
NumSources == 4
StopAfterAttempt == 3
AcceptScore == 45
SerpAttempts == 3
MaxUrlsScored == 3
ScoreFloor == 15
SubPageLimit == 2
MaxRetries == 3
SniperMaxRetries == 4
DeepScanLimit == 12

LockTtlSecs == LockTtlMs \div 1000

\* Two workers share the Redis server.
Workers == {1, 2}
Tokens == 1..MaxTokens
Ips == {"ipA", "ipB"}
Sources == 1..NumSources

VARIABLES
  lock,       \* Redis key apt_tor_rotation_mutex: val = lock token
  lastRot,    \* Redis key apt_tor_last_rotation_time: val = age of the stored timestamp
  failKey,    \* Redis key c2_fails_*: val = failure counter
  openKey,    \* Redis key c2_open_*: val = "OPEN"
  pc,         \* position of each worker inside force_new_identity
  tok,        \* lock_token of each worker's current call (0: none drawn yet)
  strict,     \* strict_verification of each worker's current call
  oldIp,      \* old_ip of each worker's current call
  newIp,      \* new_ip of each worker's current call
  ret,        \* value returned by each worker's last completed call
  outcome,    \* which exit path the last completed call took
  sleepLeft,  \* seconds the jitter sleep still has to last
  torIp,      \* current exit address of the Tor circuit
  holders,    \* history: tokens granted the lease during the life of the current key
  acq,        \* history: the last direct run of the acquire script
  refused,    \* history: a direct acquire was refused during the life of the current key
  sinceSignal, \* history: seconds since the last accepted NEWNYM whose timestamp is
              \* not written yet, while fewer than the cooldown; -1 otherwise
  consec,     \* history: direct record_failure calls since Init or the last record_success
  streakExpired, \* history: the failure counter expired during the current streak
  succSeen,   \* history: a direct record_success has happened
  openAge,    \* history: seconds since the breaker last opened, capped at the cooldown;
              \* -1 when it never opened since Init or the last record_success
  rpc,        \* position of discover_and_inject and of the race it runs
  task,       \* per source: the state of its task and the response it got
  doneq,      \* as_completed's queue: the tasks of this run in completion order
  yielded,    \* how many entries of doneq the race loop has consumed
  attempt,    \* tenacity's attempt number
  raceRuns,   \* history: how many times the race body was started
  result,     \* the elements the race returned: their source and kind
  inflight,   \* history: the tasks that were not done when the winner was taken
  written     \* institutions written by discover_and_inject

VARIABLES
  rsPc,        \* position of each _resolve_node coroutine of the batch
  results,     \* what the search provider returned to each node
  cands,       \* candidates: the valid results, sorted by descending score
  idx,         \* index in cands of the candidate being liveness-checked
  found,       \* the URL each node returned (NoUrl: None)
  seenInBatch, \* SERPResolverEngine.seen_in_batch
  liveSet,     \* the URLs that answer a liveness check with a status below 400
  website,     \* Institution.website of each institution (NoUrl: null)
  storedBy,    \* history: which path stored the website
  chosenRaw,   \* history: the raw candidate the stored website was derived from
  verifiedLive,\* history: URLs for which _verify_url_live returned True
  skipped,     \* history: URLs each node skipped because they were in seen_in_batch
  probed,      \* history: URLs each node liveness-checked, in order
  p1Pc,        \* position of phase 1 of task_run_single_recon
  p1Attempt,   \* attempt number of the SERP loop of phase 1
  p1Found      \* found_url of phase 1 with the candidate it came from

VARIABLES
  wsPc,        \* position of worker_scan
  wsOpts,      \* use_email and use_whatsapp of the call
  wsUrls,      \* how many URLs search_engine_redundancy returned
  wsIdx,       \* how many of them cognitive_url_scorer has gone through
  bestScore,   \* best_score
  bestUrl,     \* best_url: the index of the URL it came from (0: None)
  scoreOf,     \* the score computed for each URL (-1: none, the fetch failed)
  winScore,    \* history: the score that was computed for the URL returned
  pagesScanned,\* data['pages_scanned']
  ems,         \* number of distinct emails in data['ems']
  phs,         \* whether data['phs'] is non-empty
  subLinks,    \* length of contact_links
  subIdx,      \* how many entries of contact_links[:2] the loop has gone through
  subFetched,  \* history: sub-pages whose GET returned
  lateVisit,   \* history: a sub-page was requested with two distinct emails in hand
  wsErr        \* data['err']

VARIABLES
  scPc,        \* position of scan_target
  cfg,         \* the engine's ReconConfig: MAX_RETRIES and DEEP_SCAN_LIMIT
  navPc,       \* position inside _navigate_with_stealth
  navAttempt,  \* how many attempts the current navigation has made
  navHist,     \* history: what each attempt of the current navigation met
  rotLog,      \* history: rotations requested after each of those attempts
  mainHist,    \* history: navHist of the navigation to the target's own URL
  poolSize,    \* size of discovery_pool
  deepList,    \* deep_links, as ids of the links of the pool
  deepIdx,     \* index in deep_links of the link being visited
  visited,     \* history: the links _navigate_with_stealth was called for
  scEmails,    \* number of distinct emails in master_contacts
  scLate,      \* history: a deep link was visited with two distinct emails in hand
  deepFails,   \* history: the links whose visit failed (navigation or extraction)
  scSaved,     \* number of emails handed to _save_intelligence_to_db (-1: not called)
  scPage,      \* the browser page of the scan: "none", "open" or "closed"
  scOutcome    \* how the scan ended

VARIABLES
  tPc,         \* position of each delivery of task_run_single_recon
  tLock,       \* the cache entry mutex_recon_<inst_id>: 0 when absent, else the
               \* delivery whose cache.add created it (the entry itself holds "locked")
  tAcq,        \* acquired, in each delivery's distributed_lock
  tAttempt,    \* attempt number of each delivery's SERP loop
  tFound,      \* found_url of each delivery
  tSite,       \* Institution.website of the target (NoUrl: null)
  tScan,       \* history: how the scan started by each delivery ended
  tExtract,    \* history: whether execute_recon was called, and the website then
  tSoft,       \* history: where SoftTimeLimitExceeded was raised in each delivery
  tRet         \* what each delivery returned ("none": still running)

VARIABLES
  uPc,         \* position of the two runs of the persistence step for one target
  uPath,       \* which pipeline persists: "sniper" or "recon"
  uData,       \* the extracted data, the same in both runs
  uInst,       \* the institution's row: website, email, phone, lead_score
  uTech,       \* the institution's TechProfile (exists = FALSE: no row)
  uOnce        \* history: the row and the profile after the first run

VARIABLES
  bkPc,        \* position of a retry loop with backoff
  bkCfg,       \* which loop it is, with its retries and base_delay (tenths of a second)
  bkAttempt,   \* the loop variable attempt
  bkSleeps     \* history: the attempt, jitter and time of each sleep, in tenths

VARIABLES
  snPc,        \* position of task_run_omni_sniper: queued, or ended
  snRetries,   \* self.request.retries of the current delivery
  snLog,       \* history: what happened in each run of the task, in order
  snRet        \* how the task ended ("none": not yet)

VARIABLES
  dPc,         \* position of a management command's handle()
  dCmd,        \* which command runs: "resolve_urls" or "enrich_leads"
  dCont,       \* the --continuous option
  stopRequested, \* Command.stop_requested
  dSignals,    \* how many SIGINT/SIGTERM the process has received
  dPending,    \* the pending institutions, in the order the query returns them
  dBatch,      \* the institutions of the batch in progress
  dStarted,    \* history: the values dSignals had when a batch was started
  dIncluded,   \* history: the institutions that were part of a processed batch
  dSleep,      \* seconds left in the interruptible sleep
  dTelemetry,  \* the closing telemetry was printed
  dForced      \* the process left through sys.exit(1)

torVars == <<lock, lastRot, failKey, openKey, pc, tok, strict, oldIp, newIp, ret, outcome,
             sleepLeft, torIp, holders, acq, refused, sinceSignal, consec,
             streakExpired,
             succSeen, openAge>>
raceVars == <<rpc, task, doneq, yielded, attempt, raceRuns, result, inflight, written>>
resolveVars == <<rsPc, results, cands, idx, found, seenInBatch, liveSet, website,
                 storedBy, chosenRaw, verifiedLive, skipped, probed,
                 p1Pc, p1Attempt, p1Found>>
scanVars == <<wsPc, wsOpts, wsUrls, wsIdx, bestScore, bestUrl, scoreOf, winScore,
              pagesScanned, ems, phs, subLinks, subIdx, subFetched, lateVisit, wsErr>>
reconVars == <<scPc, cfg, navPc, navAttempt, navHist, rotLog, mainHist, poolSize,
               deepList, deepIdx, visited, scEmails, scLate, deepFails, scSaved,
               scPage, scOutcome>>
upsertVars == <<uPc, uPath, uData, uInst, uTech, uOnce>>
backoffVars == <<bkPc, bkCfg, bkAttempt, bkSleeps>>
sniperVars == <<snPc, snRetries, snLog, snRet>>
daemonVars == <<dPc, dCmd, dCont, stopRequested, dSignals, dPending, dBatch, dStarted,
                dIncluded, dSleep, dTelemetry, dForced>>
taskVars == <<tPc, tLock, tAcq, tAttempt, tFound, tSite, tScan, tExtract, tSoft, tRet>>
otherThanTor == <<raceVars, resolveVars, scanVars, reconVars, taskVars, upsertVars,
                  backoffVars, sniperVars, daemonVars>>
otherThanRace == <<torVars, resolveVars, scanVars, reconVars, taskVars, upsertVars,
                   backoffVars, sniperVars, daemonVars>>
otherThanResolve == <<torVars, raceVars, scanVars, reconVars, taskVars, upsertVars,
                      backoffVars, sniperVars, daemonVars>>
otherThanScan == <<torVars, raceVars, resolveVars, reconVars, taskVars, upsertVars,
                   backoffVars, sniperVars, daemonVars>>
otherThanRecon == <<torVars, raceVars, resolveVars, scanVars, taskVars, upsertVars,
                    backoffVars, sniperVars, daemonVars>>
otherThanTask == <<torVars, raceVars, resolveVars, scanVars, reconVars, upsertVars,
                   backoffVars, sniperVars, daemonVars>>
otherThanUpsert == <<torVars, raceVars, resolveVars, scanVars, reconVars, taskVars,
                     backoffVars, sniperVars, daemonVars>>
otherThanBackoff == <<torVars, raceVars, resolveVars, scanVars, reconVars, taskVars,
                      upsertVars, sniperVars, daemonVars>>
otherThanSniper == <<torVars, raceVars, resolveVars, scanVars, reconVars, taskVars,
                     upsertVars, backoffVars, daemonVars>>
otherThanDaemon == <<torVars, raceVars, resolveVars, scanVars, reconVars, taskVars,
                     upsertVars, backoffVars, sniperVars>>
vars == <<torVars, raceVars, resolveVars, scanVars, reconVars, taskVars, upsertVars,
          backoffVars, sniperVars, daemonVars>>

\* ------------------------------------------------------------ Redis keys
NoKey == [val |-> 0, ttl |-> 0]
NoOpen == [val |-> "nil", ttl |-> 0]
Exists(k) == k.ttl # 0

\* d seconds pass for a key: a key with an expiry loses them and is deleted when
\* none is left.
KeyTick(k, d, none) ==
  IF k.ttl > d THEN [k EXCEPT !.ttl = k.ttl - d]
  ELSE IF k.ttl > 0 THEN none
  ELSE k

Min(a, b) == IF a < b THEN a ELSE b

\* The acquire script with a SET that lacks NX: a live lease is overwritten.
LuaAcquireLockNoNx(k, token, ttlSecs) ==
  [ret |-> 1, key |-> IF Exists(k) /\ k.val = token THEN k
                      ELSE [val |-> token, ttl |-> ttlSecs]]

\* The acquire script with a SET that lacks PX: the lease never expires.
LuaAcquireLockNoPx(k, token, ttlSecs) ==
  IF Exists(k) /\ k.val = token THEN [ret |-> 1, key |-> k]
  ELSE IF ~Exists(k) THEN [ret |-> 1, key |-> [val |-> token, ttl |-> -1]]
  ELSE [ret |-> 0, key |-> k]

\* LUA_ACQUIRE_LOCK: get == token -> 1; SET NX PX ttl -> 1; else 0.
LuaAcquireLock(k, token, ttlSecs) ==
  IF Exists(k) /\ k.val = token THEN [ret |-> 1, key |-> k]
  ELSE IF ~Exists(k) THEN [ret |-> 1, key |-> [val |-> token, ttl |-> ttlSecs]]
  ELSE [ret |-> 0, key |-> k]

\* The failure script opening one failure late (fails > threshold).
LuaCircuitBreakerFailLate(fk, ok, cooldown, threshold) ==
  LET fails == IF Exists(fk) THEN fk.val + 1 ELSE 1
      incr == IF Exists(fk) THEN [fk EXCEPT !.val = fails] ELSE [val |-> 1, ttl |-> -1]
      fk2 == IF fails = 1 THEN [incr EXCEPT !.ttl = cooldown] ELSE incr
  IN IF fails > threshold
       THEN [ret |-> 1, failKey |-> fk2, openKey |-> [val |-> "OPEN", ttl |-> cooldown]]
       ELSE [ret |-> 0, failKey |-> fk2, openKey |-> ok]

\* The failure script setting the open key without EX: the breaker never closes by itself.
LuaCircuitBreakerFailNoEx(fk, ok, cooldown, threshold) ==
  LET fails == IF Exists(fk) THEN fk.val + 1 ELSE 1
      incr == IF Exists(fk) THEN [fk EXCEPT !.val = fails] ELSE [val |-> 1, ttl |-> -1]
      fk2 == IF fails = 1 THEN [incr EXCEPT !.ttl = cooldown] ELSE incr
  IN IF fails >= threshold
       THEN [ret |-> 1, failKey |-> fk2, openKey |-> [val |-> "OPEN", ttl |-> -1]]
       ELSE [ret |-> 0, failKey |-> fk2, openKey |-> ok]

\* LUA_CIRCUIT_BREAKER_FAIL: incr; expire on the first failure; open at the threshold.
LuaCircuitBreakerFail(fk, ok, cooldown, threshold) ==
  LET fails == IF Exists(fk) THEN fk.val + 1 ELSE 1
      incr == IF Exists(fk) THEN [fk EXCEPT !.val = fails] ELSE [val |-> 1, ttl |-> -1]
      fk2 == IF fails = 1 THEN [incr EXCEPT !.ttl = cooldown] ELSE incr
  IN IF fails >= threshold
       THEN [ret |-> 1, failKey |-> fk2, openKey |-> [val |-> "OPEN", ttl |-> cooldown]]
       ELSE [ret |-> 0, failKey |-> fk2, openKey |-> ok]

\* is_open ignoring the open key.
IsOpenNever == FALSE

\* DistributedOpSecCircuitBreaker.is_open
IsOpen == Exists(openKey)

\* -------------------------------------------------- circuit breaker state
\* record_failure (tor_controller.py:87-90): one run of the failure script.
RecordFailure ==
  LET r == LuaCircuitBreakerFail(failKey, openKey, CooldownSecs, Threshold)
  IN /\ failKey' = r.failKey
     /\ openKey' = r.openKey
     /\ openAge' = (IF r.ret = 1 THEN 0 ELSE openAge)

\* record_success deleting the open key only: the failure counter survives.
RecordSuccessKeepsCounter ==
  /\ failKey' = failKey
  /\ openKey' = NoOpen
  /\ openAge' = -1

\* record_success (tor_controller.py:92-97): MULTI/EXEC pipeline deleting both keys.
RecordSuccess ==
  /\ failKey' = NoKey
  /\ openKey' = NoOpen
  /\ openAge' = -1

breakerVars == <<failKey, openKey, openAge>>
breakerHist == <<consec, streakExpired, succSeen>>
workerVars == <<pc, tok, strict, oldIp, newIp, ret, outcome, sleepLeft, torIp>>

\* ------------------------------------------------------------------ time
\* d seconds pass: every key with an expiry ages, sleeping workers get closer to
\* waking up.
Tick(d) ==
  /\ lock' = KeyTick(lock, d, NoKey)
  /\ holders' = IF Exists(lock') THEN holders ELSE {}
  /\ lastRot' = IF Exists(lastRot)
                  THEN KeyTick([lastRot EXCEPT !.val = Min(lastRot.val + d, BaseCooldown)],
                               d, NoKey)
                  ELSE lastRot
  /\ failKey' = KeyTick(failKey, d, NoKey)
  /\ openKey' = KeyTick(openKey, d, NoOpen)
  /\ openAge' = (IF openAge >= 0 THEN Min(openAge + d, CooldownSecs) ELSE openAge)
  /\ streakExpired' = (streakExpired \/ (Exists(failKey) /\ ~Exists(failKey') /\ consec > 0))
  /\ sleepLeft' = [w \in Workers |-> IF sleepLeft[w] > d THEN sleepLeft[w] - d ELSE 0]
  /\ refused' = (refused /\ Exists(lock'))
  /\ sinceSignal' = (IF sinceSignal >= 0 /\ sinceSignal + d < BaseCooldown
                       THEN sinceSignal + d ELSE -1)
  /\ UNCHANGED <<pc, tok, strict, oldIp, newIp, ret, outcome, torIp, acq, consec, succSeen>>
  /\ UNCHANGED otherThanTor

\* --------------------------------------------------- force_new_identity
InCall == {"cooldown_check", "acquire", "old_ip", "signal", "set_last_rot",
           "record_success", "sleep", "new_ip", "record_failure",
           "release_get", "release_del"}

\* The rotation section: after the worker's own acquire succeeded, before its release.
Section == {"old_ip", "signal", "set_last_rot", "record_success", "sleep", "new_ip",
            "record_failure"}

Finish(w, r, o) ==
  /\ pc' = [pc EXCEPT ![w] = "idle"]
  /\ ret' = [ret EXCEPT ![w] = r]
  /\ outcome' = [outcome EXCEPT ![w] = o]
  /\ tok' = [tok EXCEPT ![w] = 0]
  /\ strict' = [strict EXCEPT ![w] = FALSE]
  /\ oldIp' = [oldIp EXCEPT ![w] = "UNKNOWN"]
  /\ newIp' = [newIp EXCEPT ![w] = "UNKNOWN"]

\* Lines 173-181: the call starts with the breaker gate.
BeginCall(w, s) ==
  /\ pc[w] = "idle"
  /\ IF IsOpen
       THEN /\ Finish(w, "false", "breaker_open")
       ELSE /\ pc' = [pc EXCEPT ![w] = "cooldown_check"]
            /\ strict' = [strict EXCEPT ![w] = s]
            /\ ret' = [ret EXCEPT ![w] = "none"]
            /\ outcome' = [outcome EXCEPT ![w] = "none"]
            /\ UNCHANGED <<tok, oldIp, newIp>>
  /\ UNCHANGED <<lock, lastRot, holders, acq, refused, sinceSignal, sleepLeft, torIp>>
  /\ UNCHANGED <<breakerVars, breakerHist>>
  /\ UNCHANGED otherThanTor

\* Lines 183-188: the lock-free fast path on the last rotation time.
CheckCooldown(w) ==
  /\ pc[w] = "cooldown_check"
  /\ IF Exists(lastRot) /\ lastRot.val < BaseCooldown
       THEN Finish(w, "true", "cooldown")
       ELSE /\ pc' = [pc EXCEPT ![w] = "acquire"]
            /\ UNCHANGED <<tok, strict, oldIp, newIp, ret, outcome>>
  /\ UNCHANGED <<lock, lastRot, holders, acq, refused, sinceSignal, sleepLeft, torIp>>
  /\ UNCHANGED <<breakerVars, breakerHist>>
  /\ UNCHANGED otherThanTor

\* secrets.token_hex(8) (line 191): a token that differs from every token still
\* held by a worker or stored in the lock (a collision of two 64-bit random tokens
\* is not modelled).
FreshToken ==
  LET used == {tok[w] : w \in Workers} \cup (IF Exists(lock) THEN {lock.val} ELSE {})
  IN CHOOSE t \in Tokens \ used : \A u \in Tokens \ used : t <= u

\* Lines 190-198: a fresh token, then the acquire script with an 8000 ms lease.
AcquireLease(w) ==
  /\ pc[w] = "acquire"
  /\ LET t == FreshToken
         r == LuaAcquireLock(lock, t, LockTtlSecs)
     IN /\ lock' = r.key
        /\ IF r.ret = 1
             THEN /\ holders' = holders \cup {t}
                  /\ tok' = [tok EXCEPT ![w] = t]
                  /\ pc' = [pc EXCEPT ![w] = IF strict[w] THEN "old_ip" ELSE "signal"]
                  /\ UNCHANGED <<strict, oldIp, newIp, ret, outcome>>
             ELSE /\ holders' = holders
                  /\ Finish(w, "true", "delegated")
  /\ UNCHANGED <<lastRot, acq, refused, sinceSignal, sleepLeft, torIp>>
  /\ UNCHANGED <<breakerVars, breakerHist>>
  /\ UNCHANGED otherThanTor

\* _get_current_exit_ip (lines 147-171): the exit address, or None on any error.
ExitIpAnswers == {torIp, "none"}

\* Line 198 with strict verification: the address before the signal.
GetOldIp(w) ==
  /\ pc[w] = "old_ip"
  /\ \E ip \in ExitIpAnswers : oldIp' = [oldIp EXCEPT ![w] = ip]
  /\ UNCHANGED newIp
  /\ pc' = [pc EXCEPT ![w] = "signal"]
  /\ UNCHANGED <<lock, lastRot, holders, acq, refused, sinceSignal, tok, strict, ret, outcome, sleepLeft,
                 torIp>>
  /\ UNCHANGED <<breakerVars, breakerHist>>
  /\ UNCHANGED otherThanTor

\* Lines 204-206 and the except clauses 231-242: connect, authenticate, NEWNYM.
SignalOutcomes == {"ok", "auth_failure", "net_failure", "exception"}

Signal(w, o) ==
  /\ pc[w] = "signal"
  /\ IF o = "ok"
       THEN /\ \E ip \in Ips : torIp' = ip
            /\ pc' = [pc EXCEPT ![w] = "set_last_rot"]
            /\ sinceSignal' = 0
            /\ UNCHANGED outcome
       ELSE /\ (IF Exists(failKey) THEN failKey.val ELSE 0) < MaxFailCount
            /\ pc' = [pc EXCEPT ![w] = "record_failure"]
            /\ outcome' = [outcome EXCEPT ![w] = o]
            /\ UNCHANGED <<torIp, sinceSignal>>
  /\ UNCHANGED <<lock, lastRot, holders, acq, refused, tok, strict, oldIp, newIp, ret, sleepLeft>>
  /\ UNCHANGED <<breakerVars, breakerHist>>
  /\ UNCHANGED otherThanTor

\* Line 209: the cluster clock, SET with EX base_cooldown.
SetLastRot(w) ==
  /\ pc[w] = "set_last_rot"
  /\ lastRot' = [val |-> 0, ttl |-> BaseCooldown]
  /\ pc' = [pc EXCEPT ![w] = "record_success"]
  /\ sinceSignal' = (IF \E v \in Workers \ {w} : pc[v] = "set_last_rot"
                       THEN sinceSignal ELSE -1)
  /\ UNCHANGED <<lock, holders, acq, refused, tok, strict, oldIp, newIp, ret, outcome, sleepLeft,
                 torIp>>
  /\ UNCHANGED <<breakerVars, breakerHist>>
  /\ UNCHANGED otherThanTor

\* Lines 214-215: jitter_ms in [2800, 4100]; the sleep lasts at least its whole seconds.
JitterSecs == {JitterMinMs \div 1000, JitterMaxMs \div 1000}

\* Lines 210-215: record_success, then the worker goes to sleep.
RecordSuccessStep(w) ==
  /\ pc[w] = "record_success"
  /\ RecordSuccess
  /\ UNCHANGED breakerHist
  /\ \E j \in JitterSecs : sleepLeft' = [sleepLeft EXCEPT ![w] = j]
  /\ pc' = [pc EXCEPT ![w] = "sleep"]
  /\ UNCHANGED <<lock, lastRot, holders, acq, refused, sinceSignal, tok, strict, oldIp, newIp, ret, outcome,
                 torIp>>
  /\ UNCHANGED otherThanTor

\* Lines 215-229 without strict verification: the sleep ends and the call succeeds.
WakeUp(w) ==
  /\ pc[w] = "sleep"
  /\ sleepLeft[w] = 0
  /\ IF strict[w]
       THEN /\ pc' = [pc EXCEPT ![w] = "new_ip"]
            /\ UNCHANGED <<ret, outcome>>
       ELSE /\ pc' = [pc EXCEPT ![w] = "release_get"]
            /\ ret' = [ret EXCEPT ![w] = "true"]
            /\ outcome' = [outcome EXCEPT ![w] = "rotated"]
  /\ UNCHANGED <<lock, lastRot, holders, acq, refused, sinceSignal, tok, strict, oldIp, newIp, sleepLeft, torIp>>
  /\ UNCHANGED <<breakerVars, breakerHist>>
  /\ UNCHANGED otherThanTor

\* Lines 218-225: the address after the signal decides the strict call.
GetNewIp(w) ==
  /\ pc[w] = "new_ip"
  /\ \E ip \in ExitIpAnswers :
       /\ newIp' = [newIp EXCEPT ![w] = ip]
       /\ IF ip = oldIp[w] /\ oldIp[w] # "UNKNOWN"
            THEN /\ ret' = [ret EXCEPT ![w] = "false"]
                 /\ outcome' = [outcome EXCEPT ![w] = "ip_retained"]
            ELSE /\ ret' = [ret EXCEPT ![w] = "true"]
                 /\ outcome' = [outcome EXCEPT ![w] = "rotated"]
  /\ pc' = [pc EXCEPT ![w] = "release_get"]
  /\ UNCHANGED <<lock, lastRot, holders, acq, refused, sinceSignal, tok, strict, oldIp, sleepLeft, torIp>>
  /\ UNCHANGED <<breakerVars, breakerHist>>
  /\ UNCHANGED otherThanTor

\* Lines 231-242: every except clause records the failure and returns False.
RecordFailureStep(w) ==
  /\ pc[w] = "record_failure"
  /\ RecordFailure
  /\ UNCHANGED breakerHist
  /\ ret' = [ret EXCEPT ![w] = "false"]
  /\ pc' = [pc EXCEPT ![w] = "release_get"]
  /\ UNCHANGED <<lock, lastRot, holders, acq, refused, sinceSignal, tok, strict, oldIp, newIp, outcome, sleepLeft,
                 torIp>>
  /\ UNCHANGED otherThanTor

\* The finally clause without its release: the call returns at once.
ReleaseGetNoDelete(w) ==
  /\ pc[w] = "release_get"
  /\ Finish(w, ret[w], outcome[w])
  /\ UNCHANGED <<lock, lastRot, holders, acq, refused, sinceSignal, sleepLeft, torIp>>
  /\ UNCHANGED <<breakerVars, breakerHist>>
  /\ UNCHANGED otherThanTor

\* Line 247: the finally clause reads the lock and compares it with the own token.
ReleaseGet(w) ==
  /\ pc[w] = "release_get"
  /\ IF Exists(lock) /\ lock.val = tok[w]
       THEN /\ pc' = [pc EXCEPT ![w] = "release_del"]
            /\ UNCHANGED <<tok, strict, oldIp, newIp, ret, outcome>>
       ELSE Finish(w, ret[w], outcome[w])
  /\ UNCHANGED <<lock, lastRot, holders, acq, refused, sinceSignal, sleepLeft, torIp>>
  /\ UNCHANGED <<breakerVars, breakerHist>>
  /\ UNCHANGED otherThanTor

\* Line 248: the finally clause deletes the lock.
ReleaseDel(w) ==
  /\ pc[w] = "release_del"
  /\ lock' = NoKey
  /\ holders' = {}
  /\ Finish(w, ret[w], outcome[w])
  /\ UNCHANGED <<lastRot, acq, refused, sinceSignal, sleepLeft, torIp>>
  /\ UNCHANGED <<breakerVars, breakerHist>>
  /\ UNCHANGED otherThanTor

\* The worker process dies inside the call; nothing of the call runs any more.
Crash(w) ==
  /\ pc[w] \in InCall
  /\ pc' = [pc EXCEPT ![w] = "crashed"]
  /\ UNCHANGED <<lock, lastRot, holders, acq, refused, sinceSignal, tok, strict, oldIp, newIp, ret, outcome, sleepLeft,
                 torIp>>
  /\ UNCHANGED <<breakerVars, breakerHist>>
  /\ UNCHANGED otherThanTor

\* ---------------------------------------- the two primitives called directly
\* acquire(key, token, ttl) run by any caller with any token (tor_controller.py:193).
LeaseAcquire(t) ==
  /\ LET r == LuaAcquireLock(lock, t, LockTtlSecs)
     IN /\ lock' = r.key
        /\ acq' = [tok |-> t, ret |-> r.ret, held |-> IF Exists(lock) THEN lock.val ELSE 0]
        /\ holders' = (IF r.ret = 1 THEN holders \cup {t} ELSE holders)
        /\ refused' = (refused \/ r.ret = 0)
  /\ UNCHANGED <<lastRot, sinceSignal, pc, tok, strict, oldIp, newIp, ret, outcome, sleepLeft,
                 torIp>>
  /\ UNCHANGED <<breakerVars, breakerHist>>
  /\ UNCHANGED otherThanTor

\* The release of lines 247-248 run by the caller holding token t.
LeaseRelease(t) ==
  /\ Exists(lock) /\ lock.val = t
  /\ lock' = NoKey
  /\ holders' = {}
  /\ refused' = FALSE
  /\ UNCHANGED <<lastRot, acq, sinceSignal, pc, tok, strict, oldIp, newIp, ret, outcome,
                 sleepLeft, torIp>>
  /\ UNCHANGED <<breakerVars, breakerHist>>
  /\ UNCHANGED otherThanTor

\* record_failure called directly on the breaker.
BreakerFail ==
  /\ (IF Exists(failKey) THEN failKey.val ELSE 0) < MaxFailCount
  /\ RecordFailure
  /\ consec' = Min(consec + 1, Threshold + 1)
  /\ UNCHANGED <<streakExpired, succSeen>>
  /\ UNCHANGED <<lock, lastRot, holders, acq, refused, sinceSignal>>
  /\ UNCHANGED workerVars
  /\ UNCHANGED otherThanTor

\* record_success called directly on the breaker.
BreakerSuccess ==
  /\ RecordSuccess
  /\ consec' = 0
  /\ streakExpired' = FALSE
  /\ succSeen' = TRUE
  /\ UNCHANGED <<lock, lastRot, holders, acq, refused, sinceSignal>>
  /\ UNCHANGED workerVars
  /\ UNCHANGED otherThanTor

\* ------------------------------------------------- _race_endpoints_async
NoTask == [st |-> "none", resp |-> "none"]
NoResult == [src |-> 0, kind |-> "none"]

\* What an Overpass endpoint may answer to the query.
Responses == {"data", "empty", "remark_runtime_error", "http_error"}

\* _fetch_single_node without the remark check: a corrupted answer passes as data.
FetchSingleNodeNoRemarkCheck(resp) ==
  IF resp = "http_error" THEN "failed"
  ELSE IF resp = "empty" THEN "empty"
  ELSE "data"

\* _fetch_single_node (lines 109-124): the elements of a healthy answer, an
\* exception for an HTTP error or a runtime-error remark.
FetchSingleNode(resp) ==
  IF resp = "http_error" THEN "failed"
  ELSE IF resp = "remark_runtime_error" THEN "failed"
  ELSE IF resp = "data" THEN "data"
  ELSE "empty"

Running == {"pending", "cancelling"}
Succeeded == {"data", "empty"}

\* Lines 140-143: one task per endpoint.
CreateTasks == [i \in Sources |-> [st |-> "pending", resp |-> "none"]]

\* The cancel loop skipping the first task.
CancelPendingButFirst(t) ==
  [i \in Sources |-> IF t[i].st = "pending" /\ i # 1
                       THEN [t[i] EXCEPT !.st = "cancelling"] ELSE t[i]]

\* Lines 153-155: cancel every task that is not done.
CancelPending(t) ==
  [i \in Sources |-> IF t[i].st = "pending" THEN [t[i] EXCEPT !.st = "cancelling"] ELSE t[i]]

\* No gather: the race returns right after the cancel requests.
GatherSkipped(t) == TRUE

\* Line 156: gather returns once every task is done.
GatherReturns(t) == \A i \in Sources : t[i].st \notin Running

\* A retry policy that stops one attempt late.
RetryStopsLate(a) == a > StopAfterAttempt

\* stop_after_attempt(3) (line 127).
RetryStops(a) == a >= StopAfterAttempt

\* Lines 242-248: discover_and_inject starts the first run of the race.
StartDiscover ==
  /\ rpc = "idle"
  /\ rpc' = "racing"
  /\ task' = CreateTasks
  /\ doneq' = <<>>
  /\ yielded' = 0
  /\ attempt' = 1
  /\ raceRuns' = raceRuns + 1
  /\ UNCHANGED <<result, inflight, written>>
  /\ UNCHANGED otherThanRace

\* The request of source i ends with response r (lines 112-124).
TaskComplete(i, r) ==
  /\ rpc \in {"racing", "gathering"}
  /\ task[i].st = "pending"
  /\ task' = [task EXCEPT ![i] = [st |-> FetchSingleNode(r), resp |-> r]]
  /\ doneq' = Append(doneq, i)
  /\ UNCHANGED <<rpc, yielded, attempt, raceRuns, result, inflight, written>>
  /\ UNCHANGED otherThanRace

\* A task whose cancellation was requested ends with CancelledError.
TaskCancelled(i) ==
  /\ task[i].st = "cancelling"
  /\ task' = [task EXCEPT ![i].st = "cancelled"]
  /\ doneq' = Append(doneq, i)
  /\ UNCHANGED <<rpc, yielded, attempt, raceRuns, result, inflight, written>>
  /\ UNCHANGED otherThanRace

\* Lines 148-167: one iteration of the as_completed loop on the next finished task.
RaceNext ==
  /\ rpc = "racing"
  /\ yielded < Len(doneq)
  /\ LET i == doneq[yielded + 1]
     IN /\ yielded' = yielded + 1
        /\ IF task[i].st \in Succeeded
             THEN /\ task' = CancelPending(task)
                  /\ result' = [src |-> i, kind |-> task[i].st]
                  /\ inflight' = {j \in Sources : task[j].st = "pending"}
                  /\ rpc' = "gathering"
             ELSE /\ rpc' = IF yielded + 1 < NumSources THEN "racing"
                            ELSE IF RetryStops(attempt) THEN "done"
                            ELSE "backoff"
                  /\ UNCHANGED <<task, result, inflight>>
  /\ UNCHANGED <<doneq, attempt, raceRuns, written>>
  /\ UNCHANGED otherThanRace

\* Lines 156-159: the gather is over, the race returns the winner's elements.
GatherDone ==
  /\ rpc = "gathering"
  /\ GatherReturns(task)
  /\ rpc' = "returned"
  /\ UNCHANGED <<task, doneq, yielded, attempt, raceRuns, result, inflight, written>>
  /\ UNCHANGED otherThanRace

\* Lines 126-131: after its wait the retry policy runs the whole race again.
RetryRace ==
  /\ rpc = "backoff"
  /\ rpc' = "racing"
  /\ task' = CreateTasks
  /\ doneq' = <<>>
  /\ yielded' = 0
  /\ attempt' = attempt + 1
  /\ raceRuns' = raceRuns + 1
  /\ UNCHANGED <<result, inflight, written>>
  /\ UNCHANGED otherThanRace

\* Lines 253-295: nothing is written for an empty result or when no element
\* survives the normalisation; otherwise the institutions are upserted.
Inject(valid) ==
  /\ rpc = "returned"
  /\ written' = IF result.kind = "data" /\ valid THEN 1 ELSE 0
  /\ rpc' = "done"
  /\ UNCHANGED <<task, doneq, yielded, attempt, raceRuns, result, inflight>>
  /\ UNCHANGED otherThanRace

\* ------------------------------------------------- SERP resolver: URLs
\* A URL as the resolver sees it: its domain, the kind of its path, whether the
\* host carries the www. prefix and whether a query string or fragment follows.
\* The institution searched for is "Acme Academy" in "Springfield".
Domains == {"acmeacademy.edu", "acme-academy.edu", "facebook.com",
            "colegio.edu.co", "springfield.org"}
Paths == {"root", "contact", "blog", "pdf"}
NoUrl == [dom |-> "none", path |-> "root", www |-> FALSE, query |-> FALSE]
Url(d, p, w, q) == [dom |-> d, path |-> p, www |-> w, query |-> q]

\* The raw URLs the search provider may return.
Urls == {Url("acmeacademy.edu", "root", FALSE, FALSE),
         Url("acmeacademy.edu", "root", TRUE, TRUE),
         Url("acme-academy.edu", "contact", FALSE, FALSE),
         Url("facebook.com", "contact", FALSE, FALSE),
         Url("colegio.edu.co", "contact", FALSE, FALSE),
         Url("acme-academy.edu", "pdf", FALSE, FALSE),
         Url("springfield.org", "blog", FALSE, FALSE)}

\* _clean_url (serp_resolver.py:90-96): lower case, query and fragment cut, www.
\* removed, trailing slash removed.
CleanUrl(u) == [u EXCEPT !.www = FALSE, !.query = FALSE]

\* f"{scheme}://{netloc}".lower() (tasks.py:183-184): the path is dropped, the
\* host is kept as it was.
Origin(u) == [u EXCEPT !.path = "root", !.query = FALSE]

\* Step 1 of the scoring: the bonus of the top-level domain.
TldScore(d) ==
  CASE d = "colegio.edu.co" -> 70
    [] d \in {"acmeacademy.edu", "acme-academy.edu"} -> 40
    [] d = "springfield.org" -> 10
    [] OTHER -> 0

\* Step 2: how many vital tokens of the name ("acme", "academy") the normalized
\* first label of the domain contains, and whether it contains the city.
TokensFound(d) ==
  CASE d \in {"acmeacademy.edu", "acme-academy.edu"} -> 2
    [] OTHER -> 0
CityInDomain(d) == d = "springfield.org"

\* PATH_PENALTY (serp_resolver.py:61-65) matched against the path.
PathPenalized(p) == p \in {"blog", "pdf"}

\* The scoring with the root test dropped: every path counts as the root.
CalculateUrlRelevanceNoRootPenalty(u) ==
  TldScore(u.dom) + 35 * TokensFound(u.dom)
  + (IF CityInDomain(u.dom) THEN 20 ELSE 0)
  - (IF TokensFound(u.dom) = 0 /\ u.dom # "colegio.edu.co" THEN 1000 ELSE 0)

\* _calculate_url_relevance (serp_resolver.py:104-152).
CalculateUrlRelevance(u) ==
  TldScore(u.dom) + 35 * TokensFound(u.dom)
  + (IF CityInDomain(u.dom) THEN 20 ELSE 0)
  - (IF u.path # "root" THEN 25 + (IF PathPenalized(u.path) THEN 80 ELSE 0) ELSE 0)
  - (IF TokensFound(u.dom) = 0 /\ u.dom # "colegio.edu.co" THEN 1000 ELSE 0)

\* DOMAIN_BLACKLIST (serp_resolver.py:47-58) matched against the domain.
Blacklisted(d) == d = "facebook.com"

\* The filter without the blacklist.
IsValidCandidateNoBlacklist(u) == u.path # "pdf"

\* _is_valid_candidate (serp_resolver.py:154-166); every URL of Urls has a
\* domain and at most 120 characters.
IsValidCandidate(u) == ~Blacklisted(u.dom) /\ u.path # "pdf"

\* candidates.sort(key=score, reverse=True) (serp_resolver.py:216): a stable
\* sort, equal scores keep the provider's order.
RECURSIVE SortByScoreDesc(_)
SortByScoreDesc(s) ==
  IF s = <<>> THEN <<>>
  ELSE LET n == Len(s)
           x == s[n]
           sorted == SortByScoreDesc(SubSeq(s, 1, n - 1))
           k == Cardinality({j \in 1..(n - 1) :
                               CalculateUrlRelevance(sorted[j]) >= CalculateUrlRelevance(x)})
       IN SubSeq(sorted, 1, k) \o <<x>> \o SubSeq(sorted, k + 1, n - 1)

\* The candidate list kept in the provider's order.
CandidatesUnsorted(res) == SelectSeq(res, IsValidCandidate)

\* Lines 208-216: filter, score, sort.
Candidates(res) == SortByScoreDesc(SelectSeq(res, IsValidCandidate))

\* The acceptance test letting every score through.
BelowThresholdNever(u) == FALSE

\* Line 220: the candidate is dropped when its score is below 45.
BelowThreshold(u) == CalculateUrlRelevance(u) < AcceptScore

\* The loop of lines 218-224 from position from: the next candidate that is
\* neither below the threshold nor already claimed (0: the loop ends).
NextProbe(c, from, seen) ==
  LET ok == {j \in from..Len(c) : ~BelowThreshold(c[j]) /\ CleanUrl(c[j]) \notin seen}
  IN IF ok = {} THEN 0 ELSE CHOOSE j \in ok : \A k \in ok : j <= k

\* The candidates that loop passes over because they are already claimed.
SkippedSeen(c, from, seen) ==
  LET stop == NextProbe(c, from, seen)
      last == IF stop = 0 THEN Len(c) ELSE stop - 1
  IN {CleanUrl(c[j]) : j \in {k \in from..last :
                                 ~BelowThreshold(c[k]) /\ CleanUrl(c[k]) \in seen}}

\* The liveness check answering True for every URL.
VerifyUrlLiveAlways(u) == TRUE

\* _verify_url_live (serp_resolver.py:168-179): HEAD, then GET, status < 400;
\* any exception is False.
VerifyUrlLive(u) == u \in liveSet

Nodes == {1, 2}
RECURSIVE SeqsUpTo(_, _)
SeqsUpTo(S, n) ==
  IF n = 0 THEN {<<>>}
  ELSE LET shorter == SeqsUpTo(S, n - 1)
       IN shorter \cup {Append(s, x) : s \in {t \in shorter : Len(t) = n - 1},
                                       x \in S}
\* What the provider may return: lists of distinct URLs.
SearchResults(n) ==
  {s \in SeqsUpTo(Urls, n) : \A i, j \in 1..Len(s) : i # j => s[i] # s[j]}
\* A call of the provider: it raises, or it returns a list.
SearchOutcomes(n) ==
  {[raised |-> FALSE, list |-> s] : s \in SearchResults(n)}
    \cup {[raised |-> TRUE, list |-> <<>>]}
\* The outcomes enumerated for the institution under study and for its peer.
NodeOutcomes == SearchOutcomes(MaxResults)
PeerOutcomes == SearchOutcomes(1)
\* The URLs worth a liveness check: those some candidate can reach the check with.
Probeable == {CleanUrl(u) : u \in {v \in Urls : IsValidCandidate(v) /\ ~BelowThreshold(v)}}

\* ------------------------------------------ SERP resolver: one batch
nodeVars == <<rsPc, results, cands, idx, found, seenInBatch, liveSet, skipped, probed>>
phase1Vars == <<p1Pc, p1Attempt, p1Found>>
NoFound == [url |-> NoUrl, raw |-> NoUrl]

\* resolve_missing_urls (serp_resolver.py:265-283) up to the creation of one
\* _resolve_node coroutine per institution without a website (line 249).
StartBatch(live) ==
  /\ \A n \in Nodes : rsPc[n] = "idle"
  /\ p1Pc = "idle"
  /\ wsPc = "idle"
  /\ \E n \in Nodes : website[n] = NoUrl
  /\ seenInBatch' = {}
  /\ liveSet' = live
  /\ rsPc' = [n \in Nodes |-> IF website[n] = NoUrl THEN "search" ELSE "idle"]
  /\ UNCHANGED <<results, cands, idx, found, skipped, probed>>
  /\ UNCHANGED <<website, storedBy, chosenRaw, verifiedLive, phase1Vars>>
  /\ UNCHANGED otherThanResolve

\* Lines 194-224 of _resolve_node: the search, then the candidates are built
\* and the loop runs to its first liveness check. res is what the provider
\* returned; res.raised is _search_provider giving up after its retries.
NodeSearch(n, res) ==
  /\ rsPc[n] = "search"
  /\ IF res.raised
       THEN /\ rsPc' = [rsPc EXCEPT ![n] = "done"]
            /\ UNCHANGED <<results, cands, idx, skipped>>
       ELSE LET c == Candidates(res.list)
                j == NextProbe(c, 1, seenInBatch)
            IN /\ results' = [results EXCEPT ![n] = res.list]
               /\ cands' = [cands EXCEPT ![n] = c]
               /\ idx' = [idx EXCEPT ![n] = j]
               /\ skipped' = [skipped EXCEPT ![n] = SkippedSeen(c, 1, seenInBatch)]
               /\ rsPc' = [rsPc EXCEPT ![n] = IF j = 0 THEN "done" ELSE "verify"]
  /\ UNCHANGED <<found, seenInBatch, liveSet, probed>>
  /\ UNCHANGED <<website, storedBy, chosenRaw, verifiedLive, phase1Vars>>
  /\ UNCHANGED otherThanResolve

\* Lines 223-230: the liveness check of the cleaned candidate returns; a live
\* candidate is claimed and returned, otherwise the loop goes on to its next
\* liveness check or to its end (line 235).
NodeVerify(n) ==
  /\ rsPc[n] = "verify"
  /\ LET c == cands[n]
         u == CleanUrl(c[idx[n]])
     IN /\ probed' = [probed EXCEPT ![n] = Append(@, u)]
        /\ IF VerifyUrlLive(u)
             THEN /\ seenInBatch' = seenInBatch \cup {u}
                  /\ verifiedLive' = verifiedLive \cup {u}
                  /\ found' = [found EXCEPT ![n] = [url |-> u, raw |-> c[idx[n]]]]
                  /\ rsPc' = [rsPc EXCEPT ![n] = "done"]
                  /\ UNCHANGED <<idx, skipped>>
             ELSE LET j == NextProbe(c, idx[n] + 1, seenInBatch)
                  IN /\ idx' = [idx EXCEPT ![n] = j]
                     /\ skipped' = [skipped EXCEPT ![n] =
                                      @ \cup SkippedSeen(c, idx[n] + 1, seenInBatch)]
                     /\ rsPc' = [rsPc EXCEPT ![n] = IF j = 0 THEN "done" ELSE "verify"]
                     /\ UNCHANGED <<found, seenInBatch, verifiedLive>>
  /\ UNCHANGED <<results, cands, liveSet>>
  /\ UNCHANGED <<website, storedBy, chosenRaw, phase1Vars>>
  /\ UNCHANGED otherThanResolve

\* Lines 252-263 and 285-294: after the gather every returned URL becomes its
\* institution's website; the bulk update, or the one-by-one fallback when the
\* unique constraint on website refuses it, which skips the colliding rows.
StoreBatch ==
  /\ \E n \in Nodes : rsPc[n] = "done"
  /\ \A n \in Nodes : rsPc[n] \in {"done", "idle"}
  /\ LET saved == {n \in Nodes : /\ rsPc[n] = "done"
                                 /\ found[n].url # NoUrl
                                 /\ \A m \in Nodes : (m < n /\ rsPc[m] = "done")
                                                       => found[m].url # found[n].url}
     IN /\ website' = [n \in Nodes |-> IF n \in saved THEN found[n].url ELSE website[n]]
        /\ storedBy' = [n \in Nodes |-> IF n \in saved THEN "batch" ELSE storedBy[n]]
        /\ chosenRaw' = [n \in Nodes |-> IF n \in saved THEN found[n].raw ELSE chosenRaw[n]]
  /\ rsPc' = [n \in Nodes |-> IF rsPc[n] = "done" THEN "stored" ELSE rsPc[n]]
  /\ UNCHANGED <<results, cands, idx, found, seenInBatch, liveSet, skipped, probed>>
  /\ UNCHANGED <<verifiedLive, phase1Vars>>
  /\ UNCHANGED otherThanResolve

\* ------------------------------- task_run_single_recon, phase 1 (SERP)
\* Lines 157-175: the institution is loaded; without a website the SERP loop
\* starts with attempt 1.
Phase1Start ==
  /\ p1Pc = "idle"
  /\ \A n \in Nodes : rsPc[n] = "idle"
  /\ wsPc = "idle"
  /\ p1Pc' = (IF website[1] = NoUrl THEN "serp" ELSE "extract")
  /\ p1Attempt' = 1
  /\ UNCHANGED <<p1Found, nodeVars, website, storedBy, chosenRaw, verifiedLive>>
  /\ UNCHANGED otherThanResolve

\* The first result that passes the validity filter (lines 180-185), NoUrl when
\* there is none.
FirstValid(res) ==
  LET ok == {j \in 1..Len(res) : IsValidCandidate(res[j])}
  IN IF ok = {} THEN NoUrl ELSE res[CHOOSE j \in ok : \A k \in ok : j <= k]

\* Lines 176-190: one pass of the loop `for attempt in range(1, 4)`. res is
\* what engine._sync_ddg_search(query) gives: a list of results, or
\* res.raised for any exception, after which the loop sleeps and goes on.
Phase1Attempt(res) ==
  /\ p1Pc = "serp"
  /\ LET c == IF res.raised THEN NoUrl ELSE FirstValid(res.list)
     IN IF c # NoUrl
          THEN /\ p1Found' = [url |-> Origin(c), raw |-> c]
               /\ p1Pc' = "store"
               /\ UNCHANGED p1Attempt
          ELSE /\ p1Found' = p1Found
               /\ IF p1Attempt < SerpAttempts
                    THEN p1Attempt' = p1Attempt + 1 /\ p1Pc' = "serp"
                    ELSE p1Attempt' = p1Attempt /\ p1Pc' = "ghost"
  /\ UNCHANGED <<nodeVars, website, storedBy, chosenRaw, verifiedLive>>
  /\ UNCHANGED otherThanResolve

\* Lines 192-200: found_url is written to the institution's row.
Phase1Store ==
  /\ p1Pc = "store"
  /\ website' = [website EXCEPT ![1] = p1Found.url]
  /\ storedBy' = [storedBy EXCEPT ![1] = "phase1"]
  /\ chosenRaw' = [chosenRaw EXCEPT ![1] = p1Found.raw]
  /\ p1Pc' = "extract"
  /\ UNCHANGED <<p1Attempt, p1Found, nodeVars, verifiedLive>>
  /\ UNCHANGED otherThanResolve

\* ------------------------------------------ views.py: worker_scan
\* What cognitive_url_scorer sees in a fetched page (views.py:214-227), for a
\* one-word target: the word in the title and in the body, the city and the
\* country in the body, one of EDU_KEYWORDS in the body. A word of the title
\* is in the body too.
PageKinds ==
  {pg \in [title : BOOLEAN, body : BOOLEAN, city : BOOLEAN, country : BOOLEAN,
           edu : BOOLEAN, failed : {FALSE}] : pg.title => pg.body}
FetchError == [title |-> FALSE, body |-> FALSE, city |-> FALSE, country |-> FALSE,
               edu |-> FALSE, failed |-> TRUE]

\* Lines 213-227: the score of one page.
PageScore(pg) ==
  (IF pg.title THEN 15 ELSE 0) + (IF pg.body THEN 5 ELSE 0)
  + (IF pg.city THEN 20 ELSE 0) + (IF pg.country THEN 10 ELSE 0)
  + (IF pg.edu THEN 5 ELSE 0)

\* The final test of the scorer accepting any best score.
ScoreTooLowNever(sc) == FALSE

\* Line 245: the best score is discarded when below 15.
ScoreTooLow(sc) == sc < ScoreFloor

\* The crawl loop over the whole list.
CrawlCountAll(nl) == nl

\* Line 344: the loop runs over contact_links[:2].
CrawlCount(nl) == IF nl < SubPageLimit THEN nl ELSE SubPageLimit

\* Line 331: whether the crawl of sub-pages is entered.
CrawlWanted(opts, e, p) == (opts.email /\ e = 0) \/ (opts.whatsapp /\ ~p)

scoringVars == <<wsUrls, wsIdx, bestScore, bestUrl, scoreOf, winScore>>
crawlVars == <<ems, phs, subLinks, subIdx, subFetched, lateVisit>>

\* Lines 282-296: the call starts; a target that is not a URL is searched for.
ScanStart(direct, ue, uw) ==
  /\ wsPc = "idle"
  /\ \A n \in Nodes : rsPc[n] = "idle"
  /\ p1Pc = "idle"
  /\ wsOpts' = [email |-> ue, whatsapp |-> uw]
  /\ wsPc' = (IF direct THEN "direct" ELSE "search")
  /\ UNCHANGED <<scoringVars, crawlVars, pagesScanned, wsErr>>
  /\ UNCHANGED otherThanScan

\* Lines 297-301 and search_engine_redundancy (163-191): at most 3 URLs come
\* back; with none the scan ends with an error.
ScanSearch(n) ==
  /\ wsPc = "search"
  /\ wsUrls' = n
  /\ IF n = 0
       THEN wsPc' = "done" /\ wsErr' = "serp"
       ELSE wsPc' = "scoring" /\ wsErr' = wsErr
  /\ UNCHANGED <<wsOpts, wsIdx, bestScore, bestUrl, scoreOf, winScore, crawlVars,
                 pagesScanned>>
  /\ UNCHANGED otherThanScan

\* cognitive_url_scorer (193-248), one pass of its loop on the next URL, and
\* after the last URL its return (its locals are gone) and lines 304-312 of
\* worker_scan, which stops on a None URL.
ScorePage(pg) ==
  /\ wsPc = "scoring"
  /\ LET i == wsIdx + 1
         better == ~pg.failed /\ PageScore(pg) > bestScore
         best == IF better THEN PageScore(pg) ELSE bestScore
         url == IF better THEN i ELSE bestUrl
         so == IF pg.failed THEN scoreOf ELSE [scoreOf EXCEPT ![i] = PageScore(pg)]
     IN IF i < wsUrls
          THEN /\ wsIdx' = i
               /\ bestScore' = best
               /\ bestUrl' = url
               /\ scoreOf' = so
               /\ UNCHANGED <<wsPc, wsErr, winScore, pagesScanned>>
          ELSE /\ wsIdx' = 0
               /\ bestScore' = -1
               /\ bestUrl' = 0
               /\ scoreOf' = [j \in 1..MaxUrlsScored |-> -1]
               /\ IF ScoreTooLow(best) \/ url = 0
                    THEN /\ wsPc' = "done"
                         /\ wsErr' = "low_score"
                         /\ UNCHANGED <<winScore, pagesScanned>>
                    ELSE /\ wsPc' = "home"
                         /\ winScore' = so[url]
                         /\ pagesScanned' = pagesScanned + 1
                         /\ wsErr' = wsErr
  /\ UNCHANGED <<wsOpts, wsUrls, crawlVars>>
  /\ UNCHANGED otherThanScan

\* Lines 313-322: a target given as a URL is fetched directly; a failure of the
\* GET ends the scan in the handler of line 369.
ScanDirect(ok) ==
  /\ wsPc = "direct"
  /\ IF ok
       THEN wsPc' = "home" /\ pagesScanned' = pagesScanned + 1 /\ wsErr' = wsErr
       ELSE wsPc' = "done" /\ pagesScanned' = pagesScanned /\ wsErr' = "critical"
  /\ UNCHANGED <<wsOpts, scoringVars, crawlVars>>
  /\ UNCHANGED otherThanScan

\* Lines 327-342: the home page is mined (e distinct emails, phones or not) and
\* its contact links are collected when emails or phones are still missing.
ExtractHome(e, p, nl) ==
  /\ wsPc = "home"
  /\ (~wsOpts.email => e = 0)
  /\ (~wsOpts.whatsapp => ~p)
  /\ ems' = e
  /\ phs' = p
  /\ IF CrawlWanted(wsOpts, e, p) /\ CrawlCount(nl) > 0
       THEN subLinks' = nl /\ wsPc' = "crawl"
       ELSE subLinks' = 0 /\ wsPc' = "done"
  /\ UNCHANGED <<wsOpts, scoringVars, subIdx, subFetched, lateVisit, pagesScanned, wsErr>>
  /\ UNCHANGED otherThanScan

\* What a sub-page visit may do: the GET raises; or it returns and the page
\* gives k new distinct emails, the extraction ending normally or raising.
SubOutcomes ==
  [got : {FALSE}, k : {0}, extracted : {FALSE}]
    \cup [got : {TRUE}, k : 0..2, extracted : BOOLEAN]

\* Lines 344-353: one pass of the loop over contact_links[:2].
VisitSub(out) ==
  /\ wsPc = "crawl"
  /\ out.k > 0 => (wsOpts.email /\ ems + out.k <= MaxEmails)
  /\ subIdx' = subIdx + 1
  /\ lateVisit' = (lateVisit \/ ems >= 2)
  /\ ems' = ems + out.k
  /\ subFetched' = (IF out.got THEN subFetched + 1 ELSE subFetched)
  /\ pagesScanned' = (IF out.got THEN pagesScanned + 1 ELSE pagesScanned)
  /\ wsPc' = (IF (out.extracted /\ ems' >= 2) \/ subIdx' >= CrawlCount(subLinks)
                THEN "done" ELSE "crawl")
  /\ UNCHANGED <<wsOpts, scoringVars, phs, subLinks, wsErr>>
  /\ UNCHANGED otherThanScan

\* ------------------------------------------ recon_engine.py: scan_target
\* What one page.goto attempt may meet (recon_engine.py:566-590): a page that is
\* not blocked, a block (status 403/429 or a block marker in the body), a
\* Playwright timeout, any other exception.
NavOutcomes == {"ok", "blocked", "timeout", "neterror"}

\* A blocked attempt going on to the next one without asking for a rotation.
RotationsAfterNoneOnBlock(out) == IF out = "neterror" THEN 1 ELSE 0

\* Lines 576-580 and 587-590: how many rotations an attempt's outcome asks for.
RotationsAfter(out) == IF out \in {"blocked", "neterror"} THEN 1 ELSE 0

\* Line 592 and lines 580, 582-585: the value _navigate_with_stealth returns for
\* a finished history of attempts.
NavigateResult(hist) == hist # <<>> /\ hist[Len(hist)] \in {"ok", "timeout"}

\* Lines 947-991: how a scan whose navigation to the target returned navOk
\* ends when nothing else fails.
ScanOutcome(navOk) == IF navOk THEN "saved" ELSE "connection_failure"

\* The orders in which list(discovery_pool) may enumerate a pool of np links.
LinkOrders(np) ==
  {s \in SeqsUpTo(1..np, np) : Len(s) = np /\ \A i, j \in 1..np : i # j => s[i] # s[j]}

\* The deep links taken without the limit.
TakeLinksAll(order, limit) == order

\* Line 631: list(discovery_pool)[:DEEP_SCAN_LIMIT].
TakeLinks(order, limit) ==
  SubSeq(order, 1, IF Len(order) < limit THEN Len(order) ELSE limit)

\* A failed visit ending the loop over deep_links.
AfterDeepFailureStop(i) == Len(deepList) + 1

\* Lines 966 and 974-975: after a failed visit the loop goes on with the next
\* link of deep_links.
AfterDeepFailure(i) == i + 1

navVars == <<navPc, navAttempt, navHist, rotLog>>
deepVars == <<poolSize, deepList, deepIdx, visited, scEmails, scLate, deepFails, scSaved>>

\* Lines 912-930: the scan starts; a domain that does not resolve is skipped,
\* otherwise the page is opened.
ScanTargetStart(mr, dl, dnsOk) ==
  /\ scPc = "idle"
  /\ cfg' = [maxRetries |-> mr, deepLimit |-> dl]
  /\ IF dnsOk
       THEN scPc' = "setup" /\ scPage' = "open" /\ scOutcome' = scOutcome
       ELSE scPc' = "done" /\ scPage' = scPage /\ scOutcome' = "dns_skip"
  /\ UNCHANGED <<navVars, mainHist, deepVars>>
  /\ UNCHANGED otherThanRecon

\* Lines 931-932, before the try block: the stealth script is injected and the
\* route handler registered. An exception in either leaves scan_target at once,
\* past neither the except clause nor the finally clause.
PageSetup(stealthOk, routeOk) ==
  /\ scPc = "setup"
  /\ IF stealthOk /\ routeOk
       THEN scPc' = "nav_main" /\ navPc' = "goto" /\ scOutcome' = scOutcome
       ELSE scPc' = "raised" /\ navPc' = navPc /\ scOutcome' = "setup_error"
  /\ UNCHANGED <<cfg, navAttempt, navHist, rotLog, mainHist, deepVars, scPage>>
  /\ UNCHANGED otherThanRecon

\* Lines 994-995: whichever way the try block is left, the finally clause
\* closes the page.
FinallyClosePage == scPage' = (IF scPc' = "done" THEN "closed" ELSE scPage)

\* The scan goes on to deep link number i, or to the save after the last one
\* (lines 966-977).
GoToLink(i, emails) ==
  IF i <= Len(deepList')
    THEN /\ scPc' = "nav_deep"
         /\ deepIdx' = i
         /\ visited' = visited \cup {deepList'[i]}
         /\ scLate' = (scLate \/ emails >= 2)
         /\ navPc' = "goto"
    ELSE /\ scPc' = "save"
         /\ navPc' = "none"
         /\ UNCHANGED <<deepIdx, visited, scLate>>

\* A navigation has returned: to scan_target after the target's own URL (lines
\* 947 and 990), or to the deep-link loop (line 969).
NavReturns(hist) ==
  /\ navAttempt' = 0
  /\ navHist' = <<>>
  /\ rotLog' = <<>>
  /\ IF scPc = "nav_main"
       THEN /\ mainHist' = hist
            /\ UNCHANGED deepVars
            /\ IF NavigateResult(hist)
                 THEN scPc' = "extract_main" /\ navPc' = "none" /\ scOutcome' = scOutcome
                 ELSE scPc' = "done" /\ navPc' = "none"
                      /\ scOutcome' = ScanOutcome(FALSE)
       ELSE /\ UNCHANGED <<mainHist, scOutcome>>
            /\ IF NavigateResult(hist)
                 THEN /\ scPc' = "extract_deep"
                      /\ navPc' = "none"
                      /\ UNCHANGED deepVars
                 ELSE /\ UNCHANGED <<poolSize, deepList, scEmails, scSaved>>
                      /\ deepFails' = deepFails \cup {deepList[deepIdx]}
                      /\ GoToLink(AfterDeepFailure(deepIdx), scEmails)

\* Lines 561-590: one attempt of _navigate_with_stealth. A page that is not
\* blocked and a timeout end the navigation with True; a block and any other
\* exception request a rotation.
NavAttempt(out) ==
  /\ scPc \in {"nav_main", "nav_deep"}
  /\ navPc = "goto"
  /\ IF RotationsAfter(out) = 0 /\ out \in {"ok", "timeout"}
       THEN NavReturns(Append(navHist, out))
       ELSE /\ navAttempt' = navAttempt + 1
            /\ navHist' = Append(navHist, out)
            /\ rotLog' = Append(rotLog, RotationsAfter(out))
            /\ navPc' = (IF RotationsAfter(out) > 0 THEN "rotating" ELSE "next")
            /\ UNCHANGED <<scPc, mainHist, deepVars, scOutcome>>
  /\ UNCHANGED cfg
  /\ FinallyClosePage
  /\ UNCHANGED otherThanRecon

\* Lines 579 and 588: the awaited async_force_new_tor_identity returns True
\* (ok) or False (the breaker is open, the signal failed, or strict verification
\* found the address unchanged).
RotationReturns(ok) ==
  /\ navPc = "rotating"
  /\ navPc' = (IF ok THEN "rotated" ELSE "rotation_failed")
  /\ UNCHANGED <<scPc, cfg, navAttempt, navHist, rotLog, mainHist, deepVars, scOutcome>>
  /\ FinallyClosePage
  /\ UNCHANGED otherThanRecon

\* Lines 580 and 589-590: `continue`, or the end of the except clause; the
\* value the rotation returned is not read. The loop goes on: the next attempt,
\* or line 592 after the last one.
LoopContinues ==
  /\ navPc \in {"rotated", "rotation_failed", "next"}
  /\ IF navAttempt < cfg.maxRetries
       THEN /\ navPc' = "goto"
            /\ UNCHANGED <<scPc, navAttempt, navHist, rotLog, mainHist, deepVars, scOutcome>>
       ELSE NavReturns(navHist)
  /\ UNCHANGED cfg
  /\ FinallyClosePage
  /\ UNCHANGED otherThanRecon

\* Lines 948-966: the target's page is mined (e distinct emails) and its deep
\* links are collected; ok = FALSE is an exception in one of these steps, which
\* ends the scan in the handler of line 992.
ExtractMain(e, order, ok) ==
  /\ scPc = "extract_main"
  /\ IF ok
       THEN /\ scEmails' = e
            /\ poolSize' = Len(order)
            /\ deepList' = TakeLinks(order, cfg.deepLimit)
            /\ UNCHANGED <<deepFails, scSaved>>
            /\ GoToLink(1, e)
            /\ scOutcome' = scOutcome
       ELSE /\ scPc' = "done"
            /\ scOutcome' = "error"
            /\ UNCHANGED <<navPc, deepVars>>
  /\ UNCHANGED <<cfg, navAttempt, navHist, rotLog, mainHist>>
  /\ FinallyClosePage
  /\ UNCHANGED otherThanRecon

\* Lines 970-975: the contacts of a deep link's page are merged (k new distinct
\* emails); ok = FALSE is an exception in these steps, which line 974 silences.
ExtractDeep(k, ok) ==
  /\ scPc = "extract_deep"
  /\ scEmails + k <= MaxEmails
  /\ ~ok => k = 0
  /\ scEmails' = scEmails + k
  /\ deepFails' = (IF ok THEN deepFails ELSE deepFails \cup {deepList[deepIdx]})
  /\ UNCHANGED <<poolSize, deepList, scSaved>>
  /\ GoToLink(IF ok THEN deepIdx + 1 ELSE AfterDeepFailure(deepIdx), scEmails')
  /\ UNCHANGED <<cfg, navAttempt, navHist, rotLog, mainHist, scOutcome>>
  /\ FinallyClosePage
  /\ UNCHANGED otherThanRecon

\* Lines 977-988 and 992-995: the save; an exception in it is logged.
SaveIntelligence(ok) ==
  /\ scPc = "save"
  /\ scPc' = "done"
  /\ scSaved' = scEmails
  /\ scOutcome' = (IF ok THEN ScanOutcome(TRUE) ELSE "error")
  /\ UNCHANGED <<cfg, navVars, mainHist, poolSize, deepList, deepIdx, visited,
                 scEmails, scLate, deepFails>>
  /\ FinallyClosePage
  /\ UNCHANGED otherThanRecon

\* ------------------------------------------ tasks.py: task_run_single_recon
\* Two deliveries of the task for the same institution (at-least-once delivery).
Deliveries == {1, 2}

\* The positions at which a delivery is inside the body guarded by
\* distributed_lock with acquired == True (tasks.py:157-211).
BodyPcs == {"get", "serp", "sleep", "store", "extract"}
InBody(d) == tAcq[d] /\ tPc[d] \in BodyPcs

\* The loop over the SERP attempts going on to the store whatever it found.
AfterSerpLoopAlwaysStore(foundUrl) == "store"

\* Lines 192-203: after the SERP loop, found_url is stored, or the task ends as
\* a ghost target.
AfterSerpLoop(foundUrl) == IF foundUrl # NoUrl THEN "store" ELSE "ghost"

\* What execute_recon returns to the task for a scan that ended as scan
\* (recon_engine.py:1075-1104): it has no return value on any path.
ExecuteReconResult(scan) == "None"

\* Lines 207-211: what the task returns once execute_recon has returned.
ReturnAfterRecon(res) == "Omni-Scan Complete"

\* SoftTimeLimitExceeded may be raised once in a delivery.
MaySoft(d, soft) == soft => tSoft[d] = "none"

\* The task returns r (or raises, for "retry"); distributed_lock's finally
\* deletes the entry when this delivery had acquired it (tasks.py:95-97).
TaskReturns(d, r) ==
  /\ tPc' = [tPc EXCEPT ![d] = "done"]
  /\ tRet' = [tRet EXCEPT ![d] = r]
  /\ tLock' = (IF tAcq[d] THEN 0 ELSE tLock)

\* A delivery starts; the first one finds the institution with a website
\* already stored, or without one.
TaskStart(d, site) ==
  /\ tPc[d] = "idle"
  /\ tRet[d] = "none"
  /\ IF \A e \in Deliveries : tPc[e] = "idle" /\ tRet[e] = "none"
       THEN tSite' = site
       ELSE tSite' = tSite
  /\ tPc' = [tPc EXCEPT ![d] = "add"]
  /\ UNCHANGED <<tLock, tAcq, tAttempt, tFound, tScan, tExtract, tSoft, tRet>>
  /\ UNCHANGED otherThanTask

\* Lines 86-89 and 152-155: cache.add(lock_id, "locked", timeout) with
\* blocking = False; a delivery that does not acquire returns at once.
LockAdd(d) ==
  /\ tPc[d] = "add"
  /\ IF tLock = 0
       THEN /\ tLock' = d
            /\ tAcq' = [tAcq EXCEPT ![d] = TRUE]
            /\ tPc' = [tPc EXCEPT ![d] = "get"]
            /\ UNCHANGED tRet
       ELSE /\ TaskReturns(d, "Locked by another worker")
            /\ UNCHANGED tAcq
  /\ UNCHANGED <<tAttempt, tFound, tSite, tScan, tExtract, tSoft>>
  /\ UNCHANGED otherThanTask

\* The cache entry reaches its timeout.
LockExpires ==
  /\ tLock # 0
  /\ tLock' = 0
  /\ UNCHANGED <<tPc, tAcq, tAttempt, tFound, tSite, tScan, tExtract, tSoft, tRet>>
  /\ UNCHANGED otherThanTask

\* Lines 158-162 and 213-218: the institution is loaded. A missing row and a
\* time limit raised here end the task in the handlers of lines 213-218.
GetInstitution(d, exists, soft) ==
  /\ tPc[d] = "get"
  /\ MaySoft(d, soft)
  /\ tSoft' = [tSoft EXCEPT ![d] = IF soft THEN "get" ELSE @]
  /\ IF soft
       THEN TaskReturns(d, "Soft Timeout") /\ UNCHANGED tAttempt
       ELSE IF ~exists
         THEN TaskReturns(d, "404 Not Found") /\ UNCHANGED tAttempt
         ELSE /\ tPc' = [tPc EXCEPT ![d] = IF tSite = NoUrl THEN "serp" ELSE "extract"]
              /\ tAttempt' = [tAttempt EXCEPT ![d] = 1]
              /\ UNCHANGED <<tLock, tRet>>
  /\ UNCHANGED <<tAcq, tFound, tSite, tScan, tExtract>>
  /\ UNCHANGED otherThanTask

\* The SERP loop is over (lines 192-203).
SerpLoopEnds(d, foundUrl) ==
  IF AfterSerpLoop(foundUrl) = "store"
    THEN tPc' = [tPc EXCEPT ![d] = "store"] /\ UNCHANGED <<tLock, tRet>>
    ELSE TaskReturns(d, "Ghost Target")

\* Lines 176-188: one search of the loop `for attempt in range(1, 4)`. An
\* exception raised inside the try, the time limit among them, is caught by
\* `except Exception` and followed by the sleep of line 190.
SerpAttempt(d, res, soft) ==
  /\ tPc[d] = "serp"
  /\ MaySoft(d, soft)
  /\ tSoft' = [tSoft EXCEPT ![d] = IF soft THEN "serp" ELSE @]
  /\ LET c == IF res.raised \/ soft THEN NoUrl ELSE FirstValid(res.list)
         f == IF c = NoUrl THEN NoUrl ELSE Origin(c)
     IN /\ tFound' = [tFound EXCEPT ![d] = f]
        /\ IF res.raised \/ soft
             THEN tPc' = [tPc EXCEPT ![d] = "sleep"] /\ UNCHANGED <<tAttempt, tLock, tRet>>
             ELSE IF f # NoUrl \/ tAttempt[d] >= SerpAttempts
               THEN SerpLoopEnds(d, f) /\ UNCHANGED tAttempt
               ELSE /\ tAttempt' = [tAttempt EXCEPT ![d] = @ + 1]
                    /\ UNCHANGED <<tPc, tLock, tRet>>
  /\ UNCHANGED <<tAcq, tSite, tScan, tExtract>>
  /\ UNCHANGED otherThanTask

\* Line 190: the sleep in the exception handler; a time limit raised here leaves
\* the loop and reaches the handler of line 216.
SerpSleep(d, soft) ==
  /\ tPc[d] = "sleep"
  /\ MaySoft(d, soft)
  /\ tSoft' = [tSoft EXCEPT ![d] = IF soft THEN "sleep" ELSE @]
  /\ IF soft
       THEN TaskReturns(d, "Soft Timeout") /\ UNCHANGED tAttempt
       ELSE IF tAttempt[d] >= SerpAttempts
         THEN SerpLoopEnds(d, tFound[d]) /\ UNCHANGED tAttempt
         ELSE /\ tAttempt' = [tAttempt EXCEPT ![d] = @ + 1]
              /\ tPc' = [tPc EXCEPT ![d] = "serp"]
              /\ UNCHANGED <<tLock, tRet>>
  /\ UNCHANGED <<tAcq, tFound, tSite, tScan, tExtract>>
  /\ UNCHANGED otherThanTask

\* Lines 193-200: found_url is written to the row; a database error reaches the
\* handler of line 219, which raises self.retry.
StoreWebsite(d, out) ==
  /\ tPc[d] = "store"
  /\ MaySoft(d, out = "soft")
  /\ tSoft' = [tSoft EXCEPT ![d] = IF out = "soft" THEN "store" ELSE @]
  /\ CASE out = "ok" -> /\ tSite' = tFound[d]
                        /\ tPc' = [tPc EXCEPT ![d] = "extract"]
                        /\ UNCHANGED <<tLock, tRet>>
       [] out = "dberror" -> TaskReturns(d, "retry") /\ UNCHANGED tSite
       [] out = "soft" -> TaskReturns(d, "Soft Timeout") /\ UNCHANGED tSite
  /\ UNCHANGED <<tAcq, tAttempt, tFound, tScan, tExtract>>
  /\ UNCHANGED otherThanTask

\* Lines 205-211 with recon_engine.py:1075-1104: execute_recon(inst_id) runs
\* the scan, which ends as scan, and the task returns. execute_recon catches
\* every Exception of the scan, the time limit among them, and returns nothing.
ExecuteRecon(d, scan, soft) ==
  /\ tPc[d] = "extract"
  /\ MaySoft(d, soft)
  /\ tSoft' = [tSoft EXCEPT ![d] = IF soft THEN "extract" ELSE @]
  /\ tExtract' = [tExtract EXCEPT ![d] = [called |-> TRUE, site |-> tSite]]
  /\ tScan' = [tScan EXCEPT ![d] = IF soft THEN "error" ELSE scan]
  /\ TaskReturns(d, ReturnAfterRecon(ExecuteReconResult(tScan'[d])))
  /\ UNCHANGED <<tAcq, tAttempt, tFound, tSite>>
  /\ UNCHANGED otherThanTask

\* ------------------------------------------ persistence of one target's data
\* What a scan extracted: the domain, the best email and phone ("" for none),
\* whether an LMS was detected, whether premium flags or social links were found.
ExtractedData ==
  [dom : {"acme.edu"}, email : {"", "dir@acme.edu"}, phone : {"", "555"},
   lms : BOOLEAN, flags : BOOLEAN, socs : BOOLEAN]
NoData == [dom |-> "", email |-> "", phone |-> "", lms |-> FALSE, flags |-> FALSE,
           socs |-> FALSE]
NoTech == [exists |-> FALSE, hasLms |-> FALSE, lms |-> "", analytics |-> FALSE]
MinOf(a, b) == IF a < b THEN a ELSE b

\* task_run_omni_sniper (tasks.py:554-599): the write to the institution's row.
\* Website, email and phone are filled only when empty; lead_score is raised
\* from its current value by 25 for an email written now, 15 for a phone written
\* now and 40 for a detected LMS, capped at 100.
OmniSniperRow(inst, data) ==
  LET setEmail == data.email # "" /\ inst.email = ""
      setPhone == data.phone # "" /\ inst.phone = ""
      bump == (IF setEmail THEN 25 ELSE 0) + (IF setPhone THEN 15 ELSE 0)
                + (IF data.lms THEN 40 ELSE 0)
  IN [website |-> IF inst.website = "" THEN data.dom ELSE inst.website,
      email |-> IF setEmail THEN data.email ELSE inst.email,
      phone |-> IF setPhone THEN data.phone ELSE inst.phone,
      leadScore |-> IF bump > 0 THEN MinOf(inst.leadScore + bump, 100)
                    ELSE inst.leadScore]

\* task_run_omni_sniper (tasks.py:601-608): the TechProfile is created when
\* missing and overwritten; has_analytics is only ever set.
OmniSniperTech(tech, data) ==
  [exists |-> TRUE, hasLms |-> data.lms,
   lms |-> IF data.lms THEN "moodle" ELSE "no detectado",
   analytics |-> (tech.analytics \/ data.socs)]

\* _save_intelligence_to_db (recon_engine.py:870-899): email and phone are
\* filled only when empty; lead_score is computed anew from the data.
SaveIntelligenceRow(inst, data) ==
  [website |-> inst.website,
   email |-> IF data.email # "" /\ inst.email = "" THEN data.email ELSE inst.email,
   phone |-> IF data.phone # "" /\ inst.phone = "" THEN data.phone ELSE inst.phone,
   leadScore |-> MinOf(10 + (IF data.lms THEN 40 ELSE 0)
                          + (IF data.email # "" THEN 25 ELSE 0)
                          + (IF data.phone # "" THEN 15 ELSE 0)
                          + (IF data.flags THEN 10 ELSE 0), 100)]

\* _save_intelligence_to_db (recon_engine.py:901-907): the TechProfile is
\* created when missing and overwritten from tech_data.
SaveIntelligenceTech(tech, data) ==
  [exists |-> TRUE, hasLms |-> data.lms,
   lms |-> IF data.lms THEN "moodle" ELSE "",
   analytics |-> data.socs]

\* The rows an institution may have before the pipeline runs.
InstRows ==
  [website : {"", "acme.edu"}, email : {"", "old@acme.edu"}, phone : {"", "555"},
   leadScore : {0, 10, 50, 90}]

\* The pipeline is about to persist data for an institution whose row is inst.
UpsertStart(path, inst, data) ==
  /\ uPc = "idle"
  /\ uPath = "none"
  /\ path = "recon" => inst.website # ""
  /\ uPath' = path
  /\ uData' = data
  /\ uInst' = inst
  /\ uOnce' = [inst |-> inst, tech |-> uTech]
  /\ uPc' = "run1"
  /\ UNCHANGED uTech
  /\ UNCHANGED otherThanUpsert

\* One run of the persistence step; the second run is the redelivery.
UpsertRun ==
  /\ uPc \in {"run1", "run2"}
  /\ uInst' = (IF uPath = "sniper" THEN OmniSniperRow(uInst, uData)
               ELSE SaveIntelligenceRow(uInst, uData))
  /\ uTech' = (IF uPath = "sniper" THEN OmniSniperTech(uTech, uData)
               ELSE SaveIntelligenceTech(uTech, uData))
  /\ uOnce' = (IF uPc = "run1" THEN [inst |-> uInst', tech |-> uTech'] ELSE uOnce)
  /\ uPc' = (IF uPc = "run1" THEN "run2" ELSE "done")
  /\ UNCHANGED <<uPath, uData>>
  /\ UNCHANGED otherThanUpsert

\* ------------------------------------------ retry loops with backoff
\* Times are in tenths of a second. random.uniform(0, 1) of tasks.py:190 and
\* random.uniform(0.1, 0.5) of campaign.py:52, on that grid.
SerpJitters == 0..10
BackoffJitters == 1..5

\* The decorator as it is applied: the defaults (campaign.py:37) and the two
\* uses of campaign.py:71 and 231.
BackoffConfigs ==
  {[kind |-> "decorator", retries |-> 3, base |-> 10],
   [kind |-> "decorator", retries |-> 3, base |-> 20],
   [kind |-> "decorator", retries |-> 2, base |-> 15]}

\* The SERP loop of task_run_single_recon: attempts 1..3, 2 ** attempt seconds.
SerpConfig == [kind |-> "serp", retries |-> SerpAttempts, base |-> 10]

\* A sleep that does not grow with the attempt.
SleepTimeFlat(c, k, jitter) == c.base + jitter

\* tasks.py:190: (2 ** attempt) + random.uniform(0, 1);
\* campaign.py:52: (base_delay * (2 ** attempt)) + random.uniform(0.1, 0.5).
SleepTime(c, k, jitter) == c.base * (2 ^ k) + jitter

\* The first and the last value of the loop variable: range(1, 4) in
\* tasks.py:176, range(retries) in campaign.py:46.
FirstAttempt(c) == IF c.kind = "serp" THEN 1 ELSE 0
LastAttempt(c) == IF c.kind = "serp" THEN c.retries ELSE c.retries - 1

\* Whether a failed attempt k is followed by a sleep: always in the SERP loop,
\* in the decorator unless it was the last attempt (campaign.py:49-51).
SleepsAfter(c, k) == c.kind = "serp" \/ k < LastAttempt(c)

BackoffStart(c) ==
  /\ bkPc = "idle"
  /\ bkCfg.kind = "none"
  /\ bkCfg' = c
  /\ bkAttempt' = FirstAttempt(c)
  /\ bkPc' = "try"
  /\ UNCHANGED bkSleeps
  /\ UNCHANGED otherThanBackoff

\* The attempt succeeds: the loop is left.
AttemptSucceeds ==
  /\ bkPc = "try"
  /\ bkPc' = "done"
  /\ UNCHANGED <<bkCfg, bkAttempt, bkSleeps>>
  /\ UNCHANGED otherThanBackoff

\* The attempt raises: the loop sleeps and goes on to the next attempt, or the
\* decorator re-raises after the last one.
AttemptFails(jitter) ==
  /\ bkPc = "try"
  /\ jitter \in (IF bkCfg.kind = "serp" THEN SerpJitters ELSE BackoffJitters)
  /\ bkSleeps' = (IF SleepsAfter(bkCfg, bkAttempt)
                    THEN Append(bkSleeps, [attempt |-> bkAttempt, jitter |-> jitter,
                                           time |-> SleepTime(bkCfg, bkAttempt, jitter)])
                    ELSE bkSleeps)
  /\ IF bkAttempt < LastAttempt(bkCfg)
       THEN bkAttempt' = bkAttempt + 1 /\ bkPc' = "try"
       ELSE bkAttempt' = bkAttempt /\ bkPc' = "done"
  /\ UNCHANGED bkCfg
  /\ UNCHANGED otherThanBackoff

\* ------------------------------------------ tasks.py: task_run_omni_sniper
\* What one run of the task may meet: the row is missing; worker_scan returns a
\* domain without error; worker_scan returns one of its errors (views.py:300,
\* 307, 370, the last one with or without one of the retry keywords in the
\* exception's text); the body raises a DatabaseError, a RequestException or
\* TimeoutError, SoftTimeLimitExceeded, or any other exception.
SniperEvents ==
  {"not_found", "success", "serp_blocked", "low_confidence", "scan_crash_timeout",
   "scan_crash_other", "db_error", "net_error", "soft_time_limit", "code_error"}

\* The err text worker_scan returns for an event ("" when it returns none).
ErrMessage(ev) ==
  CASE ev = "serp_blocked" -> "Motor SERP bloqueado o 0 resultados viables."
    [] ev = "low_confidence" -> "Puntaje de confianza muy bajo. Posible Falso Positivo."
    [] ev = "scan_crash_timeout" -> "Fallo Critico: read timeout"
    [] ev = "scan_crash_other" -> "Fallo Critico: other"
    [] OTHER -> ""

\* tasks.py:620: "timeout", "waf" or "bloque" in err_msg.lower().
HasRetryKeyword(msg) ==
  msg \in {"Motor SERP bloqueado o 0 resultados viables.", "Fallo Critico: read timeout"}

\* Which handler of the task an event ends in (tasks.py:530-648): a return
\* value, or the name of the except clause that calls self.retry.
SniperHandler(ev) ==
  CASE ev = "not_found" -> "ABORTED_NOT_FOUND"
    [] ev = "success" -> "SUCCESS"
    [] ErrMessage(ev) # "" ->
         IF HasRetryKeyword(ErrMessage(ev)) THEN "retry_net" ELSE "FAILED"
    [] ev = "db_error" -> "retry_db"
    [] ev = "net_error" -> "retry_net"
    [] ev = "soft_time_limit" -> "TIMEOUT_KILLED"
    [] ev = "code_error" -> "retry_any"

\* self.retry (tasks.py:629, 634, 647): the task is queued again while
\* request.retries is below max_retries; beyond that self.retry raises and the
\* task ends failed, or line 648 returns CRITICAL_FAILURE.
Requeues(h, retries) == h \in {"retry_db", "retry_net", "retry_any"} /\ retries < SniperMaxRetries

\* One run of the task, from its delivery to its end or its re-enqueueing.
SniperRun(ev) ==
  /\ snPc = "queued"
  /\ snLog' = Append(snLog, ev)
  /\ LET h == SniperHandler(ev)
     IN IF Requeues(h, snRetries)
          THEN /\ snRetries' = snRetries + 1
               /\ UNCHANGED <<snPc, snRet>>
          ELSE /\ snPc' = "ended"
               /\ snRet' = (CASE h = "retry_any" -> "CRITICAL_FAILURE"
                              [] h \in {"retry_db", "retry_net"} -> "MaxRetriesExceeded"
                              [] OTHER -> h)
               /\ UNCHANGED snRetries
  /\ UNCHANGED otherThanSniper

Range(s) == {s[i] : i \in DOMAIN s}

\* ------------------- management/commands: resolve_urls.py, enrich_leads.py
NumInstitutions == 3
BatchLimit == 2
SleepSecs == 2
Commands == {"resolve_urls", "enrich_leads"}

\* The rows a batch works on: the first `limit` rows of the pending query
\* (serp_resolver.py:267-270, enrich_leads.py:75-79), which has a fixed order.
FirstRows(pending, limit) == SubSeq(pending, 1, IF Len(pending) < limit THEN Len(pending) ELSE limit)

\* The pending query after a batch: a row leaves it only when its website
\* (resolve_urls) or its last_scored_at (enrich_leads) was written, which the
\* engines do for the rows they succeeded on (serp_resolver.py:255-259,
\* recon_engine.py:879-880) and for no other row.
StillPending(pending, succeeded) == SelectSeq(pending, LAMBDA i : i \notin succeeded)

\* handle() is called with its options; `n` rows are pending.
DaemonStart(cmd, cont, n) ==
  /\ dPc = "idle"
  /\ dCmd' = cmd
  /\ dCont' = cont
  /\ dPending' = [i \in 1..n |-> i]
  /\ dPc' = "test"
  /\ UNCHANGED <<stopRequested, dSignals, dBatch, dStarted, dIncluded, dSleep,
                 dTelemetry, dForced>>
  /\ UNCHANGED otherThanDaemon

\* `while not self.stop_requested` (resolve_urls.py:76, enrich_leads.py:72).
LoopTest ==
  /\ dPc = "test"
  /\ dPc' = IF stopRequested THEN "final" ELSE "count"
  /\ UNCHANGED <<dCmd, dCont, stopRequested, dSignals, dPending, dBatch, dStarted,
                 dIncluded, dSleep, dTelemetry, dForced>>
  /\ UNCHANGED otherThanDaemon

\* The pending count (resolve_urls.py:78-82, enrich_leads.py:81-93): an empty
\* queue ends the loop, except that enrich_leads in continuous mode polls; a
\* non-empty one starts the batch (resolve_urls.py:87, enrich_leads.py:99-112).
CountPending ==
  /\ dPc = "count"
  /\ IF Len(dPending) = 0
       THEN /\ IF dCmd = "enrich_leads" /\ dCont
                 THEN dPc' = "sleep" /\ dSleep' = SleepSecs
                 ELSE dPc' = "final" /\ UNCHANGED dSleep
            /\ UNCHANGED <<dBatch, dStarted>>
       ELSE /\ dPc' = "batch"
            /\ dBatch' = FirstRows(dPending, BatchLimit)
            /\ dStarted' = dStarted \cup {dSignals}
            /\ UNCHANGED dSleep
  /\ UNCHANGED <<dCmd, dCont, stopRequested, dSignals, dPending, dIncluded,
                 dTelemetry, dForced>>
  /\ UNCHANGED otherThanDaemon

\* The batch runs to its end: the rows of `succeeded` are written, the others
\* are left as they were (serp_resolver.py:287-295, recon_engine.py:992-993).
BatchRuns(succeeded) ==
  /\ dPc = "batch"
  /\ succeeded \subseteq Range(dBatch)
  /\ dPending' = StillPending(dPending, succeeded)
  /\ dIncluded' = dIncluded \cup Range(dBatch)
  /\ dBatch' = <<>>
  /\ dPc' = "after"
  /\ UNCHANGED <<dCmd, dCont, stopRequested, dSignals, dStarted, dSleep,
                 dTelemetry, dForced>>
  /\ UNCHANGED otherThanDaemon

\* `if not continuous or self.stop_requested: break`, else the cooldown starts
\* (resolve_urls.py:91-98, enrich_leads.py:125-130).
AfterBatch ==
  /\ dPc = "after"
  /\ IF ~dCont \/ stopRequested
       THEN dPc' = "final" /\ UNCHANGED dSleep
       ELSE dPc' = "sleep" /\ dSleep' = SleepSecs
  /\ UNCHANGED <<dCmd, dCont, stopRequested, dSignals, dPending, dBatch, dStarted,
                 dIncluded, dTelemetry, dForced>>
  /\ UNCHANGED otherThanDaemon

\* The interruptible sleep: one second at a time, left as soon as a stop was
\* requested (resolve_urls.py:98-100, enrich_leads.py:87-90 and 130-132).
SleepTick ==
  /\ dPc = "sleep"
  /\ IF stopRequested \/ dSleep = 0
       THEN dPc' = "test" /\ dSleep' = 0
       ELSE dSleep' = dSleep - 1 /\ UNCHANGED dPc
  /\ UNCHANGED <<dCmd, dCont, stopRequested, dSignals, dPending, dBatch, dStarted,
                 dIncluded, dTelemetry, dForced>>
  /\ UNCHANGED otherThanDaemon

\* _signal_handler: SIGINT or SIGTERM arrives, at any point of handle(). The
\* first one sets the flag; a later one calls sys.exit(1), whose SystemExit
\* passes the `except Exception` clauses and reaches the finally block.
SignalHandler ==
  /\ dPc \notin {"idle", "exited"}
  /\ dSignals < 2
  /\ dSignals' = dSignals + 1
  /\ IF ~stopRequested
       THEN stopRequested' = TRUE /\ UNCHANGED <<dPc, dForced, dBatch>>
       ELSE dPc' = "final" /\ dForced' = TRUE /\ dBatch' = <<>> /\ UNCHANGED stopRequested
  /\ UNCHANGED <<dCmd, dCont, dPending, dStarted, dIncluded, dSleep, dTelemetry>>
  /\ UNCHANGED otherThanDaemon

\* The finally block prints the closing telemetry (resolve_urls.py:105-112,
\* enrich_leads.py:136-143) and handle() is left.
ClosingTelemetry ==
  /\ dPc = "final"
  /\ dTelemetry' = TRUE
  /\ dPc' = "exited"
  /\ UNCHANGED <<dCmd, dCont, stopRequested, dSignals, dPending, dBatch, dStarted,
                 dIncluded, dSleep, dForced>>
  /\ UNCHANGED otherThanDaemon

\* ------------------------------------------------------- specifications
InitTor ==
  /\ lock = NoKey
  /\ lastRot = NoKey
  /\ failKey = NoKey
  /\ openKey = NoOpen
  /\ pc = [w \in Workers |-> "idle"]
  /\ tok = [w \in Workers |-> 0]
  /\ strict = [w \in Workers |-> FALSE]
  /\ oldIp = [w \in Workers |-> "UNKNOWN"]
  /\ newIp = [w \in Workers |-> "UNKNOWN"]
  /\ ret = [w \in Workers |-> "none"]
  /\ outcome = [w \in Workers |-> "none"]
  /\ sleepLeft = [w \in Workers |-> 0]
  /\ torIp = "ipA"
  /\ holders = {}
  /\ acq = [tok |-> 0, ret |-> 0, held |-> 0]
  /\ refused = FALSE
  /\ sinceSignal = -1
  /\ consec = 0
  /\ streakExpired = FALSE
  /\ succSeen = FALSE
  /\ openAge = -1

InitRace ==
  /\ rpc = "idle"
  /\ task = [i \in Sources |-> NoTask]
  /\ doneq = <<>>
  /\ yielded = 0
  /\ attempt = 0
  /\ raceRuns = 0
  /\ result = NoResult
  /\ inflight = {}
  /\ written = 0

InitResolve ==
  /\ rsPc = [n \in Nodes |-> "idle"]
  /\ results = [n \in Nodes |-> <<>>]
  /\ cands = [n \in Nodes |-> <<>>]
  /\ idx = [n \in Nodes |-> 0]
  /\ found = [n \in Nodes |-> NoFound]
  /\ seenInBatch = {}
  /\ liveSet = {}
  /\ website = [n \in Nodes |-> NoUrl]
  /\ storedBy = [n \in Nodes |-> "none"]
  /\ chosenRaw = [n \in Nodes |-> NoUrl]
  /\ verifiedLive = {}
  /\ skipped = [n \in Nodes |-> {}]
  /\ probed = [n \in Nodes |-> <<>>]
  /\ p1Pc = "idle"
  /\ p1Attempt = 0
  /\ p1Found = NoFound

InitScan ==
  /\ wsPc = "idle"
  /\ wsOpts = [email |-> FALSE, whatsapp |-> FALSE]
  /\ wsUrls = 0
  /\ wsIdx = 0
  /\ bestScore = -1
  /\ bestUrl = 0
  /\ scoreOf = [i \in 1..MaxUrlsScored |-> -1]
  /\ winScore = -1
  /\ pagesScanned = 0
  /\ ems = 0
  /\ phs = FALSE
  /\ subLinks = 0
  /\ subIdx = 0
  /\ subFetched = 0
  /\ lateVisit = FALSE
  /\ wsErr = "none"

InitRecon ==
  /\ scPc = "idle"
  /\ cfg = [maxRetries |-> MaxRetries, deepLimit |-> DeepScanLimit]
  /\ navPc = "none"
  /\ navAttempt = 0
  /\ navHist = <<>>
  /\ rotLog = <<>>
  /\ mainHist = <<>>
  /\ poolSize = 0
  /\ deepList = <<>>
  /\ deepIdx = 0
  /\ visited = {}
  /\ scEmails = 0
  /\ scLate = FALSE
  /\ deepFails = {}
  /\ scSaved = -1
  /\ scPage = "none"
  /\ scOutcome = "none"

InitTask ==
  /\ tPc = [d \in Deliveries |-> "idle"]
  /\ tLock = 0
  /\ tAcq = [d \in Deliveries |-> FALSE]
  /\ tAttempt = [d \in Deliveries |-> 0]
  /\ tFound = [d \in Deliveries |-> NoUrl]
  /\ tSite = NoUrl
  /\ tScan = [d \in Deliveries |-> "none"]
  /\ tExtract = [d \in Deliveries |-> [called |-> FALSE, site |-> NoUrl]]
  /\ tSoft = [d \in Deliveries |-> "none"]
  /\ tRet = [d \in Deliveries |-> "none"]

InitUpsert ==
  /\ uPc = "idle"
  /\ uPath = "none"
  /\ uData = NoData
  /\ uInst = [website |-> "", email |-> "", phone |-> "", leadScore |-> 0]
  /\ uTech = NoTech
  /\ uOnce = [inst |-> uInst, tech |-> uTech]

InitSniper ==
  /\ snPc = "queued"
  /\ snRetries = 0
  /\ snLog = <<>>
  /\ snRet = "none"

InitBackoff ==
  /\ bkPc = "idle"
  /\ bkCfg = [kind |-> "none", retries |-> 0, base |-> 0]
  /\ bkAttempt = 0
  /\ bkSleeps = <<>>

InitDaemon ==
  /\ dPc = "idle"
  /\ dCmd = "resolve_urls"
  /\ dCont = FALSE
  /\ stopRequested = FALSE
  /\ dSignals = 0
  /\ dPending = <<>>
  /\ dBatch = <<>>
  /\ dStarted = {}
  /\ dIncluded = {}
  /\ dSleep = 0
  /\ dTelemetry = FALSE
  /\ dForced = FALSE

Init ==
  /\ InitTor /\ InitRace /\ InitResolve /\ InitScan /\ InitRecon /\ InitTask
  /\ InitUpsert /\ InitBackoff /\ InitSniper /\ InitDaemon

\* The steps of a call that every scenario shares.
CallStep(w) ==
  \/ CheckCooldown(w)
  \/ AcquireLease(w)
  \/ SetLastRot(w)
  \/ RecordSuccessStep(w)
  \/ WakeUp(w)
  \/ ReleaseGet(w)
  \/ ReleaseDel(w)

\* The workers' clock advances in steps of half a lease.
TickSecs == LockTtlSecs \div 2

\* Rotation scenario: the control plane answers every signal; calls are strict or
\* not, and workers may die inside a call.
Next ==
  \/ Tick(TickSecs)
  \/ \E w \in Workers :
       \/ \E s \in BOOLEAN : BeginCall(w, s)
       \/ CallStep(w)
       \/ GetOldIp(w)
       \/ Signal(w, "ok")
       \/ GetNewIp(w)
       \/ Crash(w)

Spec == Init /\ [][Next]_vars

\* The same workers with time that keeps passing.
FairSpec == Spec /\ WF_vars(Tick(TickSecs))

\* Failure scenario: the control plane may refuse or drop any signal; calls are not
\* strict.
NextFailing ==
  \/ Tick(TickSecs)
  \/ \E w \in Workers :
       \/ BeginCall(w, FALSE)
       \/ CallStep(w)
       \/ \E o \in SignalOutcomes : Signal(w, o)
       \/ RecordFailureStep(w)

SpecFailing == Init /\ [][NextFailing]_vars

NextRace ==
  \/ StartDiscover
  \/ \E i \in Sources : \E r \in Responses : TaskComplete(i, r)
  \/ \E i \in Sources : TaskCancelled(i)
  \/ RaceNext
  \/ GatherDone
  \/ RetryRace
  \/ \E valid \in BOOLEAN : Inject(valid)

\* discover_and_inject racing the Overpass endpoints.
SpecRace == Init /\ [][NextRace]_vars

NextLease == Tick(1) \/ \E t \in Tokens : (LeaseAcquire(t) \/ LeaseRelease(t))

\* The lease script called with arbitrary tokens at arbitrary times.
SpecLease == Init /\ [][NextLease]_vars

NextBreaker == Tick(1) \/ BreakerFail \/ BreakerSuccess

\* The breaker called at arbitrary times.
SpecBreaker == Init /\ [][NextBreaker]_vars

\* One batch of resolve_missing_urls over two institutions, or phase 1 of
\* task_run_single_recon for the first of them, or one worker_scan: a behaviour
\* follows one of the three entry points. The second institution's search
\* returns at most one result.
NextResolve ==
  \/ \E direct, ue, uw \in BOOLEAN : ScanStart(direct, ue, uw)
  \/ \E n \in 0..MaxUrlsScored : ScanSearch(n)
  \/ \E pg \in PageKinds \cup {FetchError} : ScorePage(pg)
  \/ \E ok \in BOOLEAN : ScanDirect(ok)
  \/ \E e \in 0..MaxEmails, p \in BOOLEAN, nl \in 0..MaxLinks : ExtractHome(e, p, nl)
  \/ \E out \in SubOutcomes : VisitSub(out)
  \/ \E live \in SUBSET Probeable : StartBatch(live)
  \/ \E res \in NodeOutcomes : NodeSearch(1, res)
  \/ \E res \in PeerOutcomes : NodeSearch(2, res)
  \/ \E n \in Nodes : NodeVerify(n)
  \/ StoreBatch
  \/ Phase1Start
  \/ \E res \in NodeOutcomes : Phase1Attempt(res)
  \/ Phase1Store

SpecResolve == Init /\ [][NextResolve]_vars

\* scan_target on one target, under the default configuration or under one with
\* 2 retries or a deep-scan limit of 2.
NextRecon ==
  \/ \E mr \in {2, MaxRetries}, dl \in {2, DeepScanLimit}, dns \in BOOLEAN :
       ScanTargetStart(mr, dl, dns)
  \/ \E stealthOk, routeOk \in BOOLEAN : PageSetup(stealthOk, routeOk)
  \/ \E out \in NavOutcomes : NavAttempt(out)
  \/ \E ok \in BOOLEAN : RotationReturns(ok)
  \/ LoopContinues
  \/ \E e \in 0..2, np \in 0..MaxLinks, ok \in BOOLEAN :
       \E order \in LinkOrders(np) : ExtractMain(e, order, ok)
  \/ \E k \in 0..2, ok \in BOOLEAN : ExtractDeep(k, ok)
  \/ \E ok \in BOOLEAN : SaveIntelligence(ok)

SpecRecon == Init /\ [][NextRecon]_vars

\* Two deliveries of task_run_single_recon for one institution.
NextTask ==
  \/ \E d \in Deliveries, site \in {NoUrl, Origin(Url("acmeacademy.edu", "root", FALSE, FALSE))} :
       TaskStart(d, site)
  \/ \E d \in Deliveries : LockAdd(d)
  \/ LockExpires
  \/ \E d \in Deliveries, exists \in BOOLEAN, soft \in BOOLEAN : GetInstitution(d, exists, soft)
  \/ \E d \in Deliveries, res \in PeerOutcomes, soft \in BOOLEAN : SerpAttempt(d, res, soft)
  \/ \E d \in Deliveries, soft \in BOOLEAN : SerpSleep(d, soft)
  \/ \E d \in Deliveries, out \in {"ok", "dberror", "soft"} : StoreWebsite(d, out)
  \/ \E d \in Deliveries, navOk \in BOOLEAN, soft \in BOOLEAN :
       ExecuteRecon(d, ScanOutcome(navOk), soft)

SpecTask == Init /\ [][NextTask]_vars

\* The persistence step of either pipeline, run twice with the same data.
NextUpsert ==
  \/ \E path \in {"sniper", "recon"}, inst \in InstRows, data \in ExtractedData :
       UpsertStart(path, inst, data)
  \/ UpsertRun

SpecUpsert == Init /\ [][NextUpsert]_vars

\* A retry loop with backoff, every attempt free to fail.
NextBackoff ==
  \/ \E c \in BackoffConfigs \cup {SerpConfig} : BackoffStart(c)
  \/ AttemptSucceeds
  \/ \E jitter \in SerpJitters : AttemptFails(jitter)

SpecBackoff == Init /\ [][NextBackoff]_vars

\* task_run_omni_sniper with the queue redelivering it after every self.retry.
NextSniper == \E ev \in SniperEvents : SniperRun(ev)

SpecSniper == Init /\ [][NextSniper]_vars

\* A management command from its start to its exit, without signals.
DaemonStep ==
  \/ LoopTest
  \/ CountPending
  \/ \E succeeded \in SUBSET (1..NumInstitutions) : BatchRuns(succeeded)
  \/ AfterBatch
  \/ SleepTick
  \/ ClosingTelemetry

NextDaemon ==
  \/ \E cmd \in Commands, cont \in BOOLEAN, n \in 0..NumInstitutions : DaemonStart(cmd, cont, n)
  \/ DaemonStep
  \/ SignalHandler

SpecDaemon == Init /\ [][NextDaemon]_vars

\* The command in continuous mode with no stop request, scheduled fairly.
NextContinuous ==
  \/ \E cmd \in Commands : DaemonStart(cmd, TRUE, NumInstitutions)
  \/ DaemonStep

FairDaemon == Init /\ [][NextContinuous]_vars /\ WF_vars(NextContinuous)

\* Every exit path of a call: the first worker calls with strict verification
\* and its signal is answered, so that its address changes or not; the others
\* call without it and the control plane answers, refuses or drops their signal.
NextRelease ==
  \/ Tick(TickSecs)
  \/ \E w \in Workers :
       \/ BeginCall(w, w = 1)
       \/ CallStep(w)
       \/ GetOldIp(w)
       \/ \E o \in (IF w = 1 THEN {"ok"} ELSE SignalOutcomes) : Signal(w, o)
       \/ GetNewIp(w)
       \/ RecordFailureStep(w)

SpecRelease == Init /\ [][NextRelease]_vars

\* ================================================================ claims

FailCount == IF Exists(failKey) THEN failKey.val ELSE 0
InSection == {w \in Workers : pc[w] \in Section}
OnlySuccess(k) ==
  /\ task[k].st \in Succeeded
  /\ \A j \in Sources \ {k} : task[j].st \notin Succeeded
FirstDone == doneq[1]
FailingResponses == {"remark_runtime_error", "http_error"}

\* C1: on one key, acquires carrying different tokens never both succeed while the
\* lease is live, and an acquire carrying the token that holds the live lease
\* always succeeds.
C1_LeaseMutex ==
  /\ Cardinality(holders) <= 1
  /\ (acq.ret = 1 /\ acq.held # 0 => acq.tok = acq.held)
  /\ (acq.held # 0 /\ acq.tok = acq.held => acq.ret = 1)

\* C1 witness: during the life of one lease another token was refused and the
\* holder acquired again with its own token.
C1_Witness ==
  /\ Exists(lock)
  /\ refused
  /\ acq.held = lock.val /\ acq.tok = lock.val /\ acq.ret = 1
  /\ lock.ttl < LockTtlSecs

\* C2: at no instant are two workers both inside the rotation section of
\* force_new_identity, the lease key expiring once its TTL has elapsed.
C2_NoSimultaneousRotation == Cardinality(InSection) <= 1

\* C3: a lease whose holder crashed without releasing it eventually expires, and an
\* acquire made when no lease is live succeeds.
C3_CrashedHolderReclaimed ==
  /\ \A w \in Workers :
       (pc[w] = "crashed" /\ Exists(lock) /\ lock.val = tok[w])
          ~> ~Exists(lock)
  /\ [][\A w \in Workers :
          (pc[w] = "acquire" /\ ~Exists(lock) /\ pc'[w] \notin {"acquire", "crashed"})
             => (pc'[w] \in Section /\ Exists(lock') /\ lock'.val = tok'[w])]_vars

\* C3 witness: a worker crashed holding the lease and a later acquire of the other
\* worker succeeded.
C3_Witness ==
  \E w \in Workers : \E v \in Workers \ {w} :
    /\ pc[w] = "crashed" /\ tok[w] # 0
    /\ pc[v] \in Section /\ tok[v] # tok[w]
    /\ Exists(lock) /\ lock.val = tok[v]

\* C4: when source k is the only one whose request completed successfully the race
\* returns the elements of source k, and every task that was in flight when the
\* winner was taken is cancelled.
C4_OnlySuccessWins ==
  /\ \A k \in Sources :
       (rpc \in {"returned", "done"} /\ OnlySuccess(k))
          => (result = [src |-> k, kind |-> task[k].st]
              /\ \A j \in inflight : task[j].st = "cancelled")
  /\ (rpc = "gathering" => \A j \in inflight : task[j].st \in {"cancelling", "cancelled"})

\* C4 witness: the last source is the only success, after a failure of another
\* source and with a third one cancelled in flight.
C4_Witness ==
  /\ rpc = "returned"
  /\ OnlySuccess(NumSources)
  /\ result.src = NumSources
  /\ \E j \in Sources : task[j].st = "failed"
  /\ \E j \in inflight : task[j].st = "cancelled"

\* C5: whenever the race has returned a result, every task it created has
\* terminated.
C5_NoTaskOutlivesRace ==
  (rpc \in {"returned", "done"} /\ result.kind # "none")
     => \A i \in Sources : task[i].st \notin Running

\* C5 witness: the race returned with two successful sources, a failed one and a
\* cancelled one.
C5_Witness ==
  /\ rpc = "returned"
  /\ Cardinality({i \in Sources : task[i].st \in Succeeded}) = 2
  /\ \E i \in Sources : task[i].st = "failed"
  /\ \E i \in Sources : task[i].st = "cancelled"

C7_AllFailRetriesThenGivesUp ==
  /\ ((\A i \in Sources : task[i].st = "failed")
        => (result = NoResult /\ rpc \in {"racing", "backoff", "done"}))
  /\ (rpc = "backoff" => (raceRuns < StopAfterAttempt /\ attempt = raceRuns
                          /\ \A i \in Sources : task[i].st = "failed"))
  /\ ((rpc = "done" /\ result = NoResult)
        => (raceRuns = StopAfterAttempt /\ written = 0))

\* C7 witness: discover_and_inject ended after three failed runs.
C7_Witness ==
  /\ rpc = "done"
  /\ result = NoResult
  /\ raceRuns = StopAfterAttempt
  /\ \A i \in Sources : task[i].st = "failed"

\* C8 (as claimed): the threshold-th consecutive record_failure opens the breaker,
\* and fewer failures leave it closed.
C8_ThresholdFailuresOpen ==
  /\ [][(consec' = consec + 1 /\ consec' = Threshold) => Exists(openKey')]_vars
  /\ [](consec < Threshold => ~IsOpen)

\* C8 (amended): the threshold-th consecutive record_failure opens the breaker when
\* the failure counter has not expired since the first failure of the streak, and
\* fewer failures leave it closed.
C8_ThresholdFailuresInWindowOpen ==
  /\ [][(consec' = consec + 1 /\ consec' = Threshold /\ ~streakExpired)
           => Exists(openKey')]_vars
  /\ [](consec < Threshold => ~IsOpen)

\* C8 witness: three failures inside the window have opened the breaker.
C8_Witness ==
  /\ consec = Threshold
  /\ ~streakExpired
  /\ FailCount = Threshold
  /\ IsOpen /\ openAge = 0

\* C9: cooldown_secs after the breaker last opened is_open is false, and the next
\* call passes the gate instead of failing fast; with no other call in flight it
\* finds no fresh rotation time and no lease, and goes on to the control-plane
\* signal.
C9_CooldownAdmitsTrial ==
  /\ [](openAge >= CooldownSecs => ~IsOpen)
  /\ [](\A w \in Workers :
          (/\ openAge >= CooldownSecs
           /\ pc[w] \in {"idle", "cooldown_check", "acquire"}
           /\ \A v \in Workers \ {w} : pc[v] = "idle")
             => (~Exists(lastRot) /\ ~Exists(lock)))
  /\ [][\A w \in Workers :
          /\ (pc[w] = "idle" /\ ~IsOpen /\ (pc'[w] # "idle" \/ outcome'[w] # outcome[w]))
                => pc'[w] = "cooldown_check"
          /\ (pc[w] = "cooldown_check" /\ ~Exists(lastRot) /\ pc'[w] # pc[w])
                => pc'[w] = "acquire"
          /\ (pc[w] = "acquire" /\ ~Exists(lock) /\ pc'[w] # pc[w])
                => pc'[w] \in {"old_ip", "signal"}]_vars

\* C9 witness: the cooldown of an opened breaker has elapsed and a later call is
\* at the control-plane signal.
C9_Witness ==
  /\ openAge = CooldownSecs
  /\ ~IsOpen
  /\ \E w \in Workers : pc[w] = "signal"

\* C10: after a record_success the failure counter is zero and the breaker closed,
\* and the breaker opens again only after threshold new failures.
C10_SuccessResets ==
  succSeen =>
    /\ (consec = 0 => (FailCount = 0 /\ ~IsOpen))
    /\ (consec <= Threshold => FailCount <= consec)
    /\ (consec < Threshold => ~IsOpen)

\* C10 witness: after a success, three new failures have opened the breaker again.
C10_Witness ==
  /\ succSeen
  /\ consec = Threshold
  /\ FailCount = Threshold
  /\ IsOpen

\* C11: a call that starts while the open key exists returns False at the gate:
\* the worker never enters the call (no lease acquired, no signal, no address
\* lookup), draws no token, and the lease key, the last-rotation key and the
\* failure counter are left as they were.
C11_OpenBreakerFailsFast ==
  [][\A w \in Workers :
       (pc[w] = "idle" /\ Exists(openKey))
         => /\ pc'[w] = "idle"
            /\ tok'[w] = 0
            /\ ((ret'[w] # ret[w] \/ outcome'[w] # outcome[w])
                  => /\ ret'[w] = "false"
                     /\ outcome'[w] = "breaker_open"
                     /\ lock' = lock
                     /\ lastRot' = lastRot
                     /\ failKey' = failKey)]_vars

\* C11 witness: a call was rejected at the gate while the breaker is open and
\* the lease of another worker's call is live.
C11_Witness ==
  /\ Exists(openKey)
  /\ Exists(lock)
  /\ \E w \in Workers : pc[w] = "idle" /\ ret[w] = "false" /\ outcome[w] = "breaker_open"

Returned == {n \in Nodes : rsPc[n] \in {"done", "stored"}}

Qualifying(n) ==
  {u \in Range(results[n]) :
     /\ IsValidCandidate(u)
     /\ CalculateUrlRelevance(u) >= AcceptScore
     /\ CleanUrl(u) \notin skipped[n]
     /\ CleanUrl(u) \in liveSet}

\* C14: the URL a node returns is the cleaned form of a highest-scoring
\* qualifying candidate, None exactly when no candidate qualifies; the
\* candidates skipped as claimed were claimed in this batch; liveness checks
\* are made in descending score order and only the last one can succeed.
C14_BestLiveCandidateReturned ==
  \A n \in Returned :
    /\ (found[n].url = NoUrl <=> Qualifying(n) = {})
    /\ (found[n].url # NoUrl
          => /\ found[n].raw \in Qualifying(n)
             /\ found[n].url = CleanUrl(found[n].raw)
             /\ \A v \in Qualifying(n) :
                  CalculateUrlRelevance(v) <= CalculateUrlRelevance(found[n].raw)
             /\ probed[n][Len(probed[n])] = found[n].url)
    /\ skipped[n] \subseteq seenInBatch
    /\ \A j, k \in 1..Len(probed[n]) :
         j < k => /\ CalculateUrlRelevance(probed[n][j]) >= CalculateUrlRelevance(probed[n][k])
                  /\ probed[n][j] \notin liveSet

\* C14 witness: a node skipped a claimed candidate, found the next one dead and
\* returned the third.
C14_Witness ==
  /\ 1 \in Returned
  /\ found[1].url # NoUrl
  /\ skipped[1] # {}
  /\ Len(probed[1]) = 2

\* The candidate sets of C15: an excluded URL, a non-root URL and the root URL of
\* an equally name-matching domain, both scoring at or above the threshold.
IsC15Set(S) ==
  \E e, nr, r \in Urls :
    /\ S = {e, nr, r}
    /\ Blacklisted(e.dom)
    /\ IsValidCandidate(nr) /\ nr.path # "root"
    /\ IsValidCandidate(r) /\ r.path = "root"
    /\ TokensFound(nr.dom) = TokensFound(r.dom)
    /\ TldScore(nr.dom) = TldScore(r.dom)
    /\ CalculateUrlRelevance(nr) >= AcceptScore
    /\ CalculateUrlRelevance(r) >= AcceptScore
RootOf(S) == CHOOSE r \in S : r.path = "root" /\ ~Blacklisted(r.dom)
NonRootOf(S) == CHOOSE nr \in S : nr.path # "root" /\ ~Blacklisted(nr.dom)

\* C15 as stated: for such a candidate set with a live root URL the node returns
\* the root URL, the excluded URL is not among the scored candidates and the
\* non-root URL scores strictly less than the root URL.
C15_RootWins ==
  \A n \in Returned :
    LET S == Range(results[n])
    IN (IsC15Set(S) /\ CleanUrl(RootOf(S)) \in liveSet)
         => /\ found[n].url = CleanUrl(RootOf(S))
            /\ \A c \in Range(cands[n]) : ~Blacklisted(c.dom)
            /\ CalculateUrlRelevance(NonRootOf(S)) < CalculateUrlRelevance(RootOf(S))

\* C15 amended: the same, for a root URL that no other institution of the batch
\* had claimed when the node came to it.
C15_UnclaimedRootWins ==
  \A n \in Returned :
    LET S == Range(results[n])
    IN (IsC15Set(S) /\ CleanUrl(RootOf(S)) \in liveSet
          /\ CleanUrl(RootOf(S)) \notin skipped[n])
         => /\ found[n].url = CleanUrl(RootOf(S))
            /\ \A c \in Range(cands[n]) : ~Blacklisted(c.dom)
            /\ CalculateUrlRelevance(NonRootOf(S)) < CalculateUrlRelevance(RootOf(S))

\* C15 witness: the node got the three URLs with the non-root one first and
\* returned the root URL.
C15_Witness ==
  /\ 1 \in Returned
  /\ IsC15Set(Range(results[1]))
  /\ results[1][1].path = "contact"
  /\ found[1].url = CleanUrl(RootOf(Range(results[1])))

\* C12: a node of the resolver returns no URL or a URL whose candidate scored at
\* least 45, and the page scorer returns nothing or the URL of a page that
\* scored at least 15: no sub-threshold candidate is returned as the winner.
C12_NoSubThresholdWinner ==
  /\ \A n \in Returned :
       found[n].url # NoUrl
         => /\ CalculateUrlRelevance(found[n].raw) >= AcceptScore
            /\ CalculateUrlRelevance(found[n].url) >= AcceptScore
  /\ (wsErr = "low_score" => winScore = -1)
  /\ (winScore # -1 => winScore >= ScoreFloor)

\* C12 witness: a node whose results held a valid candidate below the threshold
\* ahead of one scoring exactly 45 returned the latter.
C12_Witness ==
  /\ 1 \in Returned
  /\ found[1].url # NoUrl
  /\ CalculateUrlRelevance(found[1].raw) = AcceptScore
  /\ IsValidCandidate(results[1][1])
  /\ CalculateUrlRelevance(results[1][1]) < AcceptScore

\* C19 as stated: a finished worker_scan reports at most 2 pages scanned.
C19_PagesScannedWithinLimit ==
  wsPc = "done" => pagesScanned <= SubPageLimit

\* C19 amended: pages_scanned counts the home page and the sub-pages fetched;
\* at most 2 sub-pages are fetched, so it never exceeds 3.
C19_SubPagesWithinLimit ==
  /\ subFetched <= SubPageLimit
  /\ subIdx <= SubPageLimit
  /\ pagesScanned <= 1 + SubPageLimit
  /\ (wsPc \in {"crawl", "done"} /\ wsErr = "none") => pagesScanned = 1 + subFetched

\* C19 witness: a scan that found three contact links ended after fetching the
\* home page and two sub-pages.
C19_Witness ==
  /\ wsPc = "done"
  /\ subLinks = MaxLinks
  /\ subFetched = SubPageLimit
  /\ pagesScanned = 1 + SubPageLimit

C17_BlockedOutcomeDistinct ==
  (scPc = "done" /\ mainHist # <<>> /\ \A i \in 1..Len(mainHist) : mainHist[i] = "blocked")
    => /\ Len(mainHist) = cfg.maxRetries
       /\ scOutcome # ScanOutcome(NavigateResult([i \in 1..cfg.maxRetries |-> "neterror"]))

\* C18: once the deep-link loop of a scan is over, the links visited are as
\* many as the smaller of DEEP_SCAN_LIMIT and the number of links discovered,
\* in whatever order the pool was enumerated; before that they are never more.
C18_VisitsMinOfLimitAndLinks ==
  LET most == IF poolSize < cfg.deepLimit THEN poolSize ELSE cfg.deepLimit
  IN /\ visited \subseteq 1..poolSize
     /\ Cardinality(visited) <= most
     /\ (scPc \in {"save", "done"} => Cardinality(visited) = most)

\* C18 witness: with a limit of 2 and three links discovered, the scan ended
\* after visiting two of them, the third link of the pool first.
C18_Witness ==
  /\ scPc = "done"
  /\ cfg.deepLimit = 2
  /\ poolSize = 3
  /\ deepList[1] = 3
  /\ Cardinality(visited) = 2

\* C20: no deep link is visited once two distinct emails have been collected.
C20_StopsAtTwoEmails ==
  ~scLate

\* C21: a failed visit of a deep link never ends the scan: from inside the
\* deep-link loop the scan only goes on to further links or to the save, keeping
\* the contacts gathered so far; every link of deep_links is visited, and the
\* save receives the contacts of the main page and of the other links.
C21_DeepFailureAbsorbed ==
  /\ [][(scPc \in {"nav_deep", "extract_deep"})
          => (scPc' \in {"nav_deep", "extract_deep", "save"}
                /\ scEmails' >= scEmails /\ scOutcome' = scOutcome)]_vars
  /\ []((scPc \in {"save", "done"} /\ deepFails # {})
          => /\ visited = Range(deepList)
             /\ (scPc = "done" => scSaved = scEmails)
             /\ (scPc = "done" => scOutcome \in {ScanOutcome(TRUE), "error"}))

\* C21 witness: the first of two deep links failed, the second gave an email,
\* and the scan ended saved with the emails of the main page and of that link.
C21_Witness ==
  /\ scPc = "done"
  /\ Len(deepList) = 2
  /\ deepFails = {deepList[1]}
  /\ scOutcome = ScanOutcome(TRUE)
  /\ scSaved = 2
  /\ NavigateResult(mainHist)

\* C22: a delivery whose scan ended in the persistent connection failure (the
\* navigation retries were exhausted) does not return the success outcome.
C22_ExhaustedScanSurfaced ==
  \A d \in Deliveries :
    (tPc[d] = "done" /\ tScan[d] = ScanOutcome(FALSE))
      => tRet[d] # ReturnAfterRecon(ExecuteReconResult(ScanOutcome(TRUE)))

\* C26: execute_recon is called only when the institution has a website, stored
\* before the task or stored by phase 1 of the same delivery, and a delivery
\* whose resolution found no URL ends as a ghost target without calling it.
C26_ResolutionBeforeExtraction ==
  /\ [](\A d \in Deliveries :
          /\ tPc[d] = "extract" => tSite # NoUrl
          /\ tExtract[d].called => tExtract[d].site # NoUrl
          /\ tRet[d] = "Ghost Target" => (~tExtract[d].called /\ tFound[d] = NoUrl))
  /\ [][\A d \in Deliveries :
          (tPc[d] = "serp" /\ tPc'[d] \notin {"serp", "sleep"})
            => \/ tPc'[d] = "store" /\ tFound'[d] # NoUrl
               \/ tPc'[d] = "done" /\ tRet'[d] = "Ghost Target"]_vars

\* C26 witness: a delivery that found the institution without a website has
\* resolved one in phase 1, stored it and called execute_recon.
C26_Witness ==
  \E d \in Deliveries :
    /\ tExtract[d].called
    /\ tFound[d] # NoUrl
    /\ tExtract[d].site = tFound[d]
    /\ tAttempt[d] = 2

\* C28: a delivery in which the time limit was raised during the SERP loop or
\* the extraction returns the timeout outcome.
C28_TimeLimitReturnsTimeout ==
  \A d \in Deliveries :
    (tPc[d] = "done" /\ tSoft[d] \in {"serp", "sleep", "store", "extract"})
      => tRet[d] = "Soft Timeout"

\* C30: at most one delivery at a time is inside the body guarded by
\* distributed_lock with acquired == True.
C30_OneDeliveryInBody ==
  Cardinality({d \in Deliveries : InBody(d)}) <= 1

\* C23: after the second run with the same extracted data the institution's row
\* (website, email, phone, lead_score) and its TechProfile are as they were
\* after the first run.
C23_SecondRunChangesNothing ==
  uPc = "done" => (uInst = uOnce.inst /\ uTech = uOnce.tech)

\* C25: a call with strict_verification reports success only from the check of
\* the address after the signal, the addresses before and after the signal
\* having both been obtained and being different.
C25_StrictSuccessMeansVerified ==
  [][\A w \in Workers :
       (strict[w] /\ ret[w] # "true" /\ ret'[w] = "true")
         => /\ pc[w] = "new_ip"
            /\ oldIp[w] \in Ips
            /\ newIp'[w] \in Ips
            /\ newIp'[w] # oldIp[w]]_vars

\* C24: the value force_new_identity returns after an authentication failure on
\* the control port differs from the value it returns after a network failure
\* on the control port, so that a caller can abort on the first and retry on
\* the second.
C24_AuthFailureDistinct ==
  \A w \in Workers : \A v \in Workers :
    (/\ outcome[w] = "auth_failure" /\ ret[w] # "none"
     /\ outcome[v] = "net_failure" /\ ret[v] # "none")
      => ret[w] # ret[v]

\* C27: the sleep after failed attempt k lasts 2^k seconds plus a jitter in
\* [0, 1] in the SERP loop and base_delay * 2^k plus a jitter in [0.1, 0.5] in
\* the decorator; successive sleeps of one loop never get shorter (neither loop
\* has a cap).
C27_BackoffGrowsJitterBounded ==
  \A i \in 1..Len(bkSleeps) :
    LET s == bkSleeps[i]
    IN /\ IF bkCfg.kind = "serp"
            THEN /\ s.jitter >= 0 /\ s.jitter <= 10
                 /\ s.time - s.jitter = 10 * (2 ^ s.attempt)
            ELSE /\ s.jitter >= 1 /\ s.jitter <= 5
                 /\ s.time - s.jitter = bkCfg.base * (2 ^ s.attempt)
       /\ \A j \in 1..Len(bkSleeps) : i < j => s.time <= bkSleeps[j].time

\* C27 witness: a decorated call failed twice and slept the shortest second
\* sleep after the longest first one; a SERP loop is covered by the same states
\* with three sleeps.
C27_Witness ==
  /\ bkCfg.kind = "decorator"
  /\ Len(bkSleeps) = 2
  /\ bkSleeps[1].jitter = 5
  /\ bkSleeps[2].jitter = 1
  /\ bkSleeps[1].time < bkSleeps[2].time

\* C29: every run after which task_run_omni_sniper was queued again met a
\* transient or blocked outcome (a timeout or block indication from the scan, a
\* network or database error), the task is queued again at most max_retries
\* times, and a run that met anything else was the last one.
C29_RetryOnlyTransientOrBlocked ==
  /\ snRetries <= SniperMaxRetries
  /\ \A i \in 1..Len(snLog) :
       (i < Len(snLog) \/ snPc = "queued")
         <=> (/\ snLog[i] \in {"serp_blocked", "scan_crash_timeout", "db_error", "net_error"}
              /\ i <= SniperMaxRetries)

\* C31: in resolve_urls and enrich_leads no batch is started after the first
\* SIGINT/SIGTERM was received; a batch in progress when it arrives runs to
\* completion, after which the loop is left and the closing telemetry is
\* printed; only a second signal interrupts a batch.
C31_NoBatchAfterFirstSignal ==
  /\ [](dStarted \subseteq {0})
  /\ [][(dPc = "batch" /\ dPc' # "batch") => (dPc' = "after" \/ dSignals' = 2)]_vars
  /\ []((dPc = "exited") => dTelemetry)

\* C38: in continuous mode, scheduled fairly and with no stop request, every
\* institution that is pending when the command starts is eventually part of a
\* processed batch, whatever the institutions of earlier batches do.
C38_EveryPendingEventuallyIncluded ==
  (dPc = "test") ~> (dIncluded = 1..NumInstitutions)

\* C32: the release step of force_new_identity deletes the lease key only while
\* the key holds the caller's own token: no step of a caller removes a lease
\* that holds another token, however lease expiry and other workers' acquires
\* interleave with the release.
C32_ReleaseDeletesOwnLeaseOnly ==
  [][\A w \in Workers :
       (pc[w] = "release_del" /\ pc'[w] = "idle" /\ Exists(lock)) => (lock.val = tok[w])]_vars

\* C33: whenever force_new_identity returns after it acquired the lease (on
\* success, on an unchanged address, on an authentication failure, a network
\* error or an unexpected exception), the lease key does not hold the caller's
\* token any more.
C33_LeaseNotHeldOnReturn ==
  [][\A w \in Workers :
       (pc[w] \in {"release_get", "release_del"} /\ pc'[w] = "idle")
         => ~(Exists(lock') /\ lock'.val = tok[w])]_vars

\* A strict call returned with the address retained while another call that
\* met an authentication failure is in its release step, the lease being its own.
C33_Witness ==
  \E w, v \in Workers :
    /\ pc[w] = "idle" /\ outcome[w] = "ip_retained"
    /\ pc[v] = "release_del" /\ outcome[v] = "auth_failure" /\ lock.val = tok[v]

\* C34: across all workers, no two rotation signals are accepted by the control
\* plane within base_cooldown seconds of each other, however the cooldown reads,
\* the lease acquisitions and the timestamp writes of the workers interleave;
\* in particular none is accepted fewer than base_cooldown seconds after one
\* whose timestamp is still to be written.
C34_SignalsSpacedByCooldown ==
  [][\A w \in Workers :
       (pc[w] = "signal" /\ pc'[w] = "set_last_rot")
         => (sinceSignal = -1)]_vars

\* C35: after a blocked attempt _navigate_with_stealth sends the next
\* navigation request only if the rotation it asked for reported success; when
\* the rotation reported failure no further request goes to the target.
C35_NextRequestOnlyAfterRotation ==
  [][(navPc = "rotation_failed" /\ navHist[Len(navHist)] = "blocked") => (navPc' # "goto")]_vars

\* C36: a worker leaving distributed_lock removes the lock entry only if the
\* entry is still the one it added: once its entry has expired and another
\* delivery has added the entry again, its exit leaves that entry in place.
C36_ExitDeletesOwnEntryOnly ==
  [][\A d \in Deliveries :
       (tPc[d] # "done" /\ tPc'[d] = "done" /\ tLock # 0 /\ tLock' = 0) => (tLock = d)]_vars

\* C37: within one batch of resolve_missing_urls no two institutions are given
\* the same normalized URL by their _resolve_node workers, however the workers'
\* seen_in_batch checks, liveness checks and seen_in_batch insertions interleave.
C37_NoUrlGivenTwice ==
  \A m, n \in Nodes :
    (m # n /\ found[m].url # NoUrl /\ rsPc[m] = "done" /\ rsPc[n] = "done")
      => found[m].url # found[n].url

\* C39: every browser page scan_target opened is closed when scan_target is
\* left, on every path: a failure of the stealth-script injection, of the route
\* registration, of the navigation, of an extraction or of the save included.
C39_PageClosedOnEveryPath ==
  (scPc \in {"done", "raised"}) => (scPage # "open")


====
